---------------------------- MODULE Spec2Model ----------------------------
(***************************************************************************)
(* Model of the M-Pesa chatbot prototypes.                                 *)
(*                                                                         *)
(*   v4  chat_agent.py / mpesa_tool.py : ChatAgent.process_message, the    *)
(*       payment tool MpesaTillTool._run and the status tool               *)
(*       MpesaTransactionStatusTool._run                                   *)
(*   v3  main.py : the Neo4j user store, the message chains and the        *)
(*       gateway callback handler                                          *)
(*                                                                         *)
(* Python strings are sequences of one-character strings, so that          *)
(* startswith, lower, substring search and the phone regex are computed    *)
(* as the code computes them.  Python values of mixed type (a gateway      *)
(* response field) are pairs <<type, text>>.                               *)
(***************************************************************************)
EXTENDS Integers, Sequences, FiniteSets, TLC

VARIABLES
    \* ---- tool-level runs (v4 mpesa_tool.py) ----
    tool_call,        \* the arguments of one tool invocation
    tool_result,      \* what the invocation gave back, NoResult before it ran
    \* ---- v4 ChatAgent ----
    user_sessions,    \* ChatAgent.user_sessions : user_id -> session or Absent
    agent_executors,  \* ChatAgent.agent_executors : the user ids with a cached executor
    pc,               \* per thread: "idle", or the statement of process_message or clear_user_memory it runs next
    cur,              \* per thread: the (message, user_id) of the call it is in, NoTurn when idle
    payment_runs,     \* per thread: runs of MpesaTillTool._run in this invoke (its payment steps)
    reply,            \* per thread: what the last finished call gave its caller, or the exception that left it
    scenario,         \* per user: how far the user's message history follows "pay 100", "174379"
    \* ---- v3 store and gateway ----
    v3_state,         \* u.state of each User node, Absent when there is no node
    v3_checkout,      \* u.checkout_request_id of each User node, None when not set
    v3_issued,        \* checkout ids the gateway has issued so far
    v3_last,          \* the last v3 handler that ran, with what it saw and did
    v3_awaiting,      \* per checkout id: the user whose accepted request the gateway has not yet sent the callback for, "none" otherwise
    \* ---- v2 workflow ----
    v2_messages,      \* ChatState.messages of the invocation, each [type, content]
    v2_node,          \* the node the graph runs next
    v2_requests,      \* the payment requests sent to the gateway, in order
    v2_outcome,       \* "running", how swarm_app.invoke ended, or what its caller then did
    v2_caller         \* the function that called swarm_app.invoke, "none" for a node run alone

vars == <<tool_call, tool_result, user_sessions, agent_executors, pc, cur,
          payment_runs, reply, scenario,
          v3_state, v3_checkout, v3_issued, v3_last, v3_awaiting,
          v2_messages, v2_node, v2_requests, v2_outcome, v2_caller>>

toolVars  == <<tool_call, tool_result>>
agentVars == <<user_sessions, agent_executors, pc, cur, payment_runs, reply, scenario>>
v3Vars    == <<v3_state, v3_checkout, v3_issued, v3_last, v3_awaiting>>
v2Vars    == <<v2_messages, v2_node, v2_requests, v2_outcome, v2_caller>>

-----------------------------------------------------------------------------
(* Python values *)

\* None where a str is expected: a one-element tuple that is no str, its element
\* being no character
None == <<"None">>
Absent == "Absent"

-----------------------------------------------------------------------------
(* Python str operations on character sequences *)

\* A character is a one-character string. A character the module's character
\* set cannot write (those beyond U+00FF, and the grave accent U+0060) is
\* named by its code point: "U+0663" is ARABIC-INDIC DIGIT THREE. The tables below are those of the
\* Unicode database of the interpreter (version 14.0), the characters beyond
\* U+00FF given as ranges of code points.

HexDigits == <<"0", "1", "2", "3", "4", "5", "6", "7", "8", "9",
               "A", "B", "C", "D", "E", "F">>

RECURSIVE Hex(_)
Hex(n) == IF n < 16 THEN HexDigits[n + 1]
          ELSE Hex(n \div 16) \o HexDigits[(n % 16) + 1]

\* the name of the character with code point n, 255 < n
CharName(n) == "U+" \o (IF n < 4096 THEN "0" ELSE "") \o Hex(n)

\* the characters of a set of ranges <<first, last>> of code points
CharsOf(ranges) == UNION {{CharName(n) : n \in r[1]..r[2]} : r \in ranges}

AsciiDigits == {"0", "1", "2", "3", "4", "5", "6", "7", "8", "9"}

\* the code point of the digit zero of every block of decimal digits beyond
\* U+00FF (general category Nd); the ten digits of a block follow each other
DecimalBlocks ==
    {1632, 1776, 1984, 2406, 2534, 2662, 2790, 2918, 3046, 3174, 3302, 3430,
     3558, 3664, 3792, 3872, 4160, 4240, 6112, 6160, 6470, 6608, 6784, 6800,
     6992, 7088, 7232, 7248, 42528, 43216, 43264, 43472, 43504, 43600, 44016,
     65296, 66720, 68912, 69734, 69872, 69942, 70096, 70384, 70736, 70864,
     71248, 71360, 71472, 71904, 72016, 72784, 73040, 73120, 92768, 92864,
     93008, 120782, 120792, 120802, 120812, 120822, 123200, 123632, 125264,
     130032}

\* \d of a str pattern: the Unicode decimal digits
Digits == AsciiDigits \cup {CharName(b + k) : b \in DecimalBlocks, k \in 0..9}

\* the characters of numeric type Digit that are no decimal digits, beyond
\* U+00FF (superscripts and subscripts, circled and parenthesized digits, ...)
OtherDigitRanges ==
    {<<4969, 4977>>, <<6618, 6618>>, <<8304, 8304>>, <<8308, 8313>>,
     <<8320, 8329>>, <<9312, 9320>>, <<9332, 9340>>, <<9352, 9360>>,
     <<9450, 9450>>, <<9461, 9469>>, <<9471, 9471>>, <<10102, 10110>>,
     <<10112, 10120>>, <<10122, 10130>>, <<68160, 68163>>, <<69216, 69224>>,
     <<69714, 69722>>, <<127232, 127242>>}

\* the characters str.isdigit accepts
IsDigitChars == Digits \cup {"²", "³", "¹"} \cup CharsOf(OtherDigitRanges)

\* the value of a decimal digit beyond U+00FF
DecimalOf ==
    [c \in Digits \ AsciiDigits |->
        CHOOSE k \in 0..9 : \E b \in DecimalBlocks : c = CharName(b + k)]

\* the ASCII digit float() and int() read a decimal digit as
DigitValue(c) ==
    IF c \in Digits \ AsciiDigits THEN HexDigits[DecimalOf[c] + 1] ELSE c

\* str.isspace, where str.split() cuts: blank, \t, \n, \r, \f, U+000B,
\* U+001C to U+001F, U+0085, U+00A0, and the separators beyond U+00FF
Whitespace ==
    {"\t", "\n", "", "\f", "\r", "", "", "", "", " ", "", " "} \cup
    CharsOf({<<5760, 5760>>, <<8192, 8202>>, <<8232, 8233>>, <<8239, 8239>>,
             <<8287, 8287>>, <<12288, 12288>>})

\* str.startswith
StartsWith(s, p) == Len(s) >= Len(p) /\ SubSeq(s, 1, Len(p)) = p

\* str.endswith
EndsWith(s, p) == Len(s) >= Len(p) /\ SubSeq(s, Len(s) - Len(p) + 1, Len(s)) = p

\* p in s
Contains(s, p) ==
    \E i \in 1..(Len(s) - Len(p) + 1) : SubSeq(s, i, i + Len(p) - 1) = p

\* str.lower, character by character. The characters up to U+00FF that it
\* changes, each with its lower-case form
LowerLatin1 ==
    {<<"A", <<"a">> >>, <<"B", <<"b">> >>, <<"C", <<"c">> >>,
     <<"D", <<"d">> >>, <<"E", <<"e">> >>, <<"F", <<"f">> >>,
     <<"G", <<"g">> >>, <<"H", <<"h">> >>, <<"I", <<"i">> >>,
     <<"J", <<"j">> >>, <<"K", <<"k">> >>, <<"L", <<"l">> >>,
     <<"M", <<"m">> >>, <<"N", <<"n">> >>, <<"O", <<"o">> >>,
     <<"P", <<"p">> >>, <<"Q", <<"q">> >>, <<"R", <<"r">> >>,
     <<"S", <<"s">> >>, <<"T", <<"t">> >>, <<"U", <<"u">> >>,
     <<"V", <<"v">> >>, <<"W", <<"w">> >>, <<"X", <<"x">> >>,
     <<"Y", <<"y">> >>, <<"Z", <<"z">> >>, <<"À", <<"à">> >>,
     <<"Á", <<"á">> >>, <<"Â", <<"â">> >>, <<"Ã", <<"ã">> >>,
     <<"Ä", <<"ä">> >>, <<"Å", <<"å">> >>, <<"Æ", <<"æ">> >>,
     <<"Ç", <<"ç">> >>, <<"È", <<"è">> >>, <<"É", <<"é">> >>,
     <<"Ê", <<"ê">> >>, <<"Ë", <<"ë">> >>, <<"Ì", <<"ì">> >>,
     <<"Í", <<"í">> >>, <<"Î", <<"î">> >>, <<"Ï", <<"ï">> >>,
     <<"Ð", <<"ð">> >>, <<"Ñ", <<"ñ">> >>, <<"Ò", <<"ò">> >>,
     <<"Ó", <<"ó">> >>, <<"Ô", <<"ô">> >>, <<"Õ", <<"õ">> >>,
     <<"Ö", <<"ö">> >>, <<"Ø", <<"ø">> >>, <<"Ù", <<"ù">> >>,
     <<"Ú", <<"ú">> >>, <<"Û", <<"û">> >>, <<"Ü", <<"ü">> >>,
     <<"Ý", <<"ý">> >>, <<"Þ", <<"þ">> >>}

\* the characters beyond U+00FF whose lower-case form is up to U+00FF or has
\* two characters
LowerSpecial ==
    {<<"U+0130", <<"i", "U+0307">> >>, <<"U+0178", <<"ÿ">> >>,
     <<"U+1E9E", <<"ß">> >>, <<"U+212A", <<"k">> >>, <<"U+212B", <<"å">> >>}

\* the other characters beyond U+00FF that str.lower changes, as runs
\* <<first, last, step, delta>>: the lower-case form of first, first + step,
\* ..., last is delta code points away
LowerRuns ==
    {<<256, 302, 2, 1>>, <<306, 310, 2, 1>>, <<313, 327, 2, 1>>,
     <<330, 374, 2, 1>>, <<377, 381, 2, 1>>, <<385, 385, 1, 210>>,
     <<386, 388, 2, 1>>, <<390, 390, 1, 206>>, <<391, 391, 1, 1>>,
     <<393, 394, 1, 205>>, <<395, 395, 1, 1>>, <<398, 398, 1, 79>>,
     <<399, 399, 1, 202>>, <<400, 400, 1, 203>>, <<401, 401, 1, 1>>,
     <<403, 403, 1, 205>>, <<404, 404, 1, 207>>, <<406, 406, 1, 211>>,
     <<407, 407, 1, 209>>, <<408, 408, 1, 1>>, <<412, 412, 1, 211>>,
     <<413, 413, 1, 213>>, <<415, 415, 1, 214>>, <<416, 420, 2, 1>>,
     <<422, 422, 1, 218>>, <<423, 423, 1, 1>>, <<425, 425, 1, 218>>,
     <<428, 428, 1, 1>>, <<430, 430, 1, 218>>, <<431, 431, 1, 1>>,
     <<433, 434, 1, 217>>, <<435, 437, 2, 1>>, <<439, 439, 1, 219>>,
     <<440, 440, 1, 1>>, <<444, 444, 1, 1>>, <<452, 452, 1, 2>>,
     <<453, 453, 1, 1>>, <<455, 455, 1, 2>>, <<456, 456, 1, 1>>,
     <<458, 458, 1, 2>>, <<459, 475, 2, 1>>, <<478, 494, 2, 1>>,
     <<497, 497, 1, 2>>, <<498, 500, 2, 1>>, <<502, 502, 1, -97>>,
     <<503, 503, 1, -56>>, <<504, 542, 2, 1>>, <<544, 544, 1, -130>>,
     <<546, 562, 2, 1>>, <<570, 570, 1, 10795>>, <<571, 571, 1, 1>>,
     <<573, 573, 1, -163>>, <<574, 574, 1, 10792>>, <<577, 577, 1, 1>>,
     <<579, 579, 1, -195>>, <<580, 580, 1, 69>>, <<581, 581, 1, 71>>,
     <<582, 590, 2, 1>>, <<880, 882, 2, 1>>, <<886, 886, 1, 1>>,
     <<895, 895, 1, 116>>, <<902, 902, 1, 38>>, <<904, 906, 1, 37>>,
     <<908, 908, 1, 64>>, <<910, 911, 1, 63>>, <<913, 929, 1, 32>>,
     <<931, 939, 1, 32>>, <<975, 975, 1, 8>>, <<984, 1006, 2, 1>>,
     <<1012, 1012, 1, -60>>, <<1015, 1015, 1, 1>>, <<1017, 1017, 1, -7>>,
     <<1018, 1018, 1, 1>>, <<1021, 1023, 1, -130>>, <<1024, 1039, 1, 80>>,
     <<1040, 1071, 1, 32>>, <<1120, 1152, 2, 1>>, <<1162, 1214, 2, 1>>,
     <<1216, 1216, 1, 15>>, <<1217, 1229, 2, 1>>, <<1232, 1326, 2, 1>>,
     <<1329, 1366, 1, 48>>, <<4256, 4293, 1, 7264>>, <<4295, 4295, 1, 7264>>,
     <<4301, 4301, 1, 7264>>, <<5024, 5103, 1, 38864>>, <<5104, 5109, 1, 8>>,
     <<7312, 7354, 1, -3008>>, <<7357, 7359, 1, -3008>>,
     <<7680, 7828, 2, 1>>, <<7840, 7934, 2, 1>>, <<7944, 7951, 1, -8>>,
     <<7960, 7965, 1, -8>>, <<7976, 7983, 1, -8>>, <<7992, 7999, 1, -8>>,
     <<8008, 8013, 1, -8>>, <<8025, 8031, 2, -8>>, <<8040, 8047, 1, -8>>,
     <<8072, 8079, 1, -8>>, <<8088, 8095, 1, -8>>, <<8104, 8111, 1, -8>>,
     <<8120, 8121, 1, -8>>, <<8122, 8123, 1, -74>>, <<8124, 8124, 1, -9>>,
     <<8136, 8139, 1, -86>>, <<8140, 8140, 1, -9>>, <<8152, 8153, 1, -8>>,
     <<8154, 8155, 1, -100>>, <<8168, 8169, 1, -8>>, <<8170, 8171, 1, -112>>,
     <<8172, 8172, 1, -7>>, <<8184, 8185, 1, -128>>, <<8186, 8187, 1, -126>>,
     <<8188, 8188, 1, -9>>, <<8486, 8486, 1, -7517>>, <<8498, 8498, 1, 28>>,
     <<8544, 8559, 1, 16>>, <<8579, 8579, 1, 1>>, <<9398, 9423, 1, 26>>,
     <<11264, 11311, 1, 48>>, <<11360, 11360, 1, 1>>,
     <<11362, 11362, 1, -10743>>, <<11363, 11363, 1, -3814>>,
     <<11364, 11364, 1, -10727>>, <<11367, 11371, 2, 1>>,
     <<11373, 11373, 1, -10780>>, <<11374, 11374, 1, -10749>>,
     <<11375, 11375, 1, -10783>>, <<11376, 11376, 1, -10782>>,
     <<11378, 11378, 1, 1>>, <<11381, 11381, 1, 1>>,
     <<11390, 11391, 1, -10815>>, <<11392, 11490, 2, 1>>,
     <<11499, 11501, 2, 1>>, <<11506, 11506, 1, 1>>, <<42560, 42604, 2, 1>>,
     <<42624, 42650, 2, 1>>, <<42786, 42798, 2, 1>>, <<42802, 42862, 2, 1>>,
     <<42873, 42875, 2, 1>>, <<42877, 42877, 1, -35332>>,
     <<42878, 42886, 2, 1>>, <<42891, 42891, 1, 1>>,
     <<42893, 42893, 1, -42280>>, <<42896, 42898, 2, 1>>,
     <<42902, 42920, 2, 1>>, <<42922, 42922, 1, -42308>>,
     <<42923, 42923, 1, -42319>>, <<42924, 42924, 1, -42315>>,
     <<42925, 42925, 1, -42305>>, <<42926, 42926, 1, -42308>>,
     <<42928, 42928, 1, -42258>>, <<42929, 42929, 1, -42282>>,
     <<42930, 42930, 1, -42261>>, <<42931, 42931, 1, 928>>,
     <<42932, 42946, 2, 1>>, <<42948, 42948, 1, -48>>,
     <<42949, 42949, 1, -42307>>, <<42950, 42950, 1, -35384>>,
     <<42951, 42953, 2, 1>>, <<42960, 42960, 1, 1>>, <<42966, 42968, 2, 1>>,
     <<42997, 42997, 1, 1>>, <<65313, 65338, 1, 32>>,
     <<66560, 66599, 1, 40>>, <<66736, 66771, 1, 40>>,
     <<66928, 66938, 1, 39>>, <<66940, 66954, 1, 39>>,
     <<66956, 66962, 1, 39>>, <<66964, 66965, 1, 39>>,
     <<68736, 68786, 1, 64>>, <<71840, 71871, 1, 32>>,
     <<93760, 93791, 1, 32>>, <<125184, 125217, 1, 34>>}

LowerPairs ==
    LowerLatin1 \cup LowerSpecial \cup
    UNION {{<<CharName(r[1] + r[3] * k), <<CharName(r[1] + r[3] * k + r[4])>> >> :
                k \in 0..((r[2] - r[1]) \div r[3])} : r \in LowerRuns}

\* the characters str.lower changes
UpperAlpha == {p[1] : p \in LowerPairs}

\* what it changes each of them to
LowerAlpha == [c \in UpperAlpha |-> (CHOOSE p \in LowerPairs : p[1] = c)[2]]

\* c.lower() for one character: a str of one character, of two characters for
\* U+0130 (LATIN CAPITAL LETTER I WITH DOT ABOVE)
LowerChar(c) == IF c \in UpperAlpha THEN LowerAlpha[c] ELSE <<c>>

\* the characters with the property Case_Ignorable
CaseIgnorable ==
    {"'", ".", ":", "^", "U+0060", "¨", "­", "¯", "´", "·", "¸"} \cup
    CharsOf({<<688, 879>>, <<884, 885>>, <<890, 890>>, <<900, 901>>,
             <<903, 903>>, <<1155, 1161>>, <<1369, 1369>>, <<1375, 1375>>,
             <<1425, 1469>>, <<1471, 1471>>, <<1473, 1474>>, <<1476, 1477>>,
             <<1479, 1479>>, <<1524, 1524>>, <<1536, 1541>>, <<1552, 1562>>,
             <<1564, 1564>>, <<1600, 1600>>, <<1611, 1631>>, <<1648, 1648>>,
             <<1750, 1757>>, <<1759, 1768>>, <<1770, 1773>>, <<1807, 1807>>,
             <<1809, 1809>>, <<1840, 1866>>, <<1958, 1968>>, <<2027, 2037>>,
             <<2042, 2042>>, <<2045, 2045>>, <<2070, 2093>>, <<2137, 2139>>,
             <<2184, 2184>>, <<2192, 2193>>, <<2200, 2207>>, <<2249, 2306>>,
             <<2362, 2362>>, <<2364, 2364>>, <<2369, 2376>>, <<2381, 2381>>,
             <<2385, 2391>>, <<2402, 2403>>, <<2417, 2417>>, <<2433, 2433>>,
             <<2492, 2492>>, <<2497, 2500>>, <<2509, 2509>>, <<2530, 2531>>,
             <<2558, 2558>>, <<2561, 2562>>, <<2620, 2620>>, <<2625, 2626>>,
             <<2631, 2632>>, <<2635, 2637>>, <<2641, 2641>>, <<2672, 2673>>,
             <<2677, 2677>>, <<2689, 2690>>, <<2748, 2748>>, <<2753, 2757>>,
             <<2759, 2760>>, <<2765, 2765>>, <<2786, 2787>>, <<2810, 2815>>,
             <<2817, 2817>>, <<2876, 2876>>, <<2879, 2879>>, <<2881, 2884>>,
             <<2893, 2893>>, <<2901, 2902>>, <<2914, 2915>>, <<2946, 2946>>,
             <<3008, 3008>>, <<3021, 3021>>, <<3072, 3072>>, <<3076, 3076>>,
             <<3132, 3132>>, <<3134, 3136>>, <<3142, 3144>>, <<3146, 3149>>,
             <<3157, 3158>>, <<3170, 3171>>, <<3201, 3201>>, <<3260, 3260>>,
             <<3263, 3263>>, <<3270, 3270>>, <<3276, 3277>>, <<3298, 3299>>,
             <<3328, 3329>>, <<3387, 3388>>, <<3393, 3396>>, <<3405, 3405>>,
             <<3426, 3427>>, <<3457, 3457>>, <<3530, 3530>>, <<3538, 3540>>,
             <<3542, 3542>>, <<3633, 3633>>, <<3636, 3642>>, <<3654, 3662>>,
             <<3761, 3761>>, <<3764, 3772>>, <<3782, 3782>>, <<3784, 3789>>,
             <<3864, 3865>>, <<3893, 3893>>, <<3895, 3895>>, <<3897, 3897>>,
             <<3953, 3966>>, <<3968, 3972>>, <<3974, 3975>>, <<3981, 3991>>,
             <<3993, 4028>>, <<4038, 4038>>, <<4141, 4144>>, <<4146, 4151>>,
             <<4153, 4154>>, <<4157, 4158>>, <<4184, 4185>>, <<4190, 4192>>,
             <<4209, 4212>>, <<4226, 4226>>, <<4229, 4230>>, <<4237, 4237>>,
             <<4253, 4253>>, <<4348, 4348>>, <<4957, 4959>>, <<5906, 5908>>,
             <<5938, 5939>>, <<5970, 5971>>, <<6002, 6003>>, <<6068, 6069>>,
             <<6071, 6077>>, <<6086, 6086>>, <<6089, 6099>>, <<6103, 6103>>,
             <<6109, 6109>>, <<6155, 6159>>, <<6211, 6211>>, <<6277, 6278>>,
             <<6313, 6313>>, <<6432, 6434>>, <<6439, 6440>>, <<6450, 6450>>,
             <<6457, 6459>>, <<6679, 6680>>, <<6683, 6683>>, <<6742, 6742>>,
             <<6744, 6750>>, <<6752, 6752>>, <<6754, 6754>>, <<6757, 6764>>,
             <<6771, 6780>>, <<6783, 6783>>, <<6823, 6823>>, <<6832, 6862>>,
             <<6912, 6915>>, <<6964, 6964>>, <<6966, 6970>>, <<6972, 6972>>,
             <<6978, 6978>>, <<7019, 7027>>, <<7040, 7041>>, <<7074, 7077>>,
             <<7080, 7081>>, <<7083, 7085>>, <<7142, 7142>>, <<7144, 7145>>,
             <<7149, 7149>>, <<7151, 7153>>, <<7212, 7219>>, <<7222, 7223>>,
             <<7288, 7293>>, <<7376, 7378>>, <<7380, 7392>>, <<7394, 7400>>,
             <<7405, 7405>>, <<7412, 7412>>, <<7416, 7417>>, <<7468, 7530>>,
             <<7544, 7544>>, <<7579, 7679>>, <<8125, 8125>>, <<8127, 8129>>,
             <<8141, 8143>>, <<8157, 8159>>, <<8173, 8175>>, <<8189, 8190>>,
             <<8203, 8207>>, <<8216, 8217>>, <<8228, 8228>>, <<8231, 8231>>,
             <<8234, 8238>>, <<8288, 8292>>, <<8294, 8303>>, <<8305, 8305>>,
             <<8319, 8319>>, <<8336, 8348>>, <<8400, 8432>>,
             <<11388, 11389>>, <<11503, 11505>>, <<11631, 11631>>,
             <<11647, 11647>>, <<11744, 11775>>, <<11823, 11823>>,
             <<12293, 12293>>, <<12330, 12333>>, <<12337, 12341>>,
             <<12347, 12347>>, <<12441, 12446>>, <<12540, 12542>>,
             <<40981, 40981>>, <<42232, 42237>>, <<42508, 42508>>,
             <<42607, 42610>>, <<42612, 42621>>, <<42623, 42623>>,
             <<42652, 42655>>, <<42736, 42737>>, <<42752, 42785>>,
             <<42864, 42864>>, <<42888, 42890>>, <<42994, 42996>>,
             <<43000, 43001>>, <<43010, 43010>>, <<43014, 43014>>,
             <<43019, 43019>>, <<43045, 43046>>, <<43052, 43052>>,
             <<43204, 43205>>, <<43232, 43249>>, <<43263, 43263>>,
             <<43302, 43309>>, <<43335, 43345>>, <<43392, 43394>>,
             <<43443, 43443>>, <<43446, 43449>>, <<43452, 43453>>,
             <<43471, 43471>>, <<43493, 43494>>, <<43561, 43566>>,
             <<43569, 43570>>, <<43573, 43574>>, <<43587, 43587>>,
             <<43596, 43596>>, <<43632, 43632>>, <<43644, 43644>>,
             <<43696, 43696>>, <<43698, 43700>>, <<43703, 43704>>,
             <<43710, 43711>>, <<43713, 43713>>, <<43741, 43741>>,
             <<43756, 43757>>, <<43763, 43764>>, <<43766, 43766>>,
             <<43867, 43871>>, <<43881, 43883>>, <<44005, 44005>>,
             <<44008, 44008>>, <<44013, 44013>>, <<64286, 64286>>,
             <<64434, 64450>>, <<65024, 65039>>, <<65043, 65043>>,
             <<65056, 65071>>, <<65106, 65106>>, <<65109, 65109>>,
             <<65279, 65279>>, <<65287, 65287>>, <<65294, 65294>>,
             <<65306, 65306>>, <<65342, 65342>>, <<65344, 65344>>,
             <<65392, 65392>>, <<65438, 65439>>, <<65507, 65507>>,
             <<65529, 65531>>, <<66045, 66045>>, <<66272, 66272>>,
             <<66422, 66426>>, <<67456, 67461>>, <<67463, 67504>>,
             <<67506, 67514>>, <<68097, 68099>>, <<68101, 68102>>,
             <<68108, 68111>>, <<68152, 68154>>, <<68159, 68159>>,
             <<68325, 68326>>, <<68900, 68903>>, <<69291, 69292>>,
             <<69446, 69456>>, <<69506, 69509>>, <<69633, 69633>>,
             <<69688, 69702>>, <<69744, 69744>>, <<69747, 69748>>,
             <<69759, 69761>>, <<69811, 69814>>, <<69817, 69818>>,
             <<69821, 69821>>, <<69826, 69826>>, <<69837, 69837>>,
             <<69888, 69890>>, <<69927, 69931>>, <<69933, 69940>>,
             <<70003, 70003>>, <<70016, 70017>>, <<70070, 70078>>,
             <<70089, 70092>>, <<70095, 70095>>, <<70191, 70193>>,
             <<70196, 70196>>, <<70198, 70199>>, <<70206, 70206>>,
             <<70367, 70367>>, <<70371, 70378>>, <<70400, 70401>>,
             <<70459, 70460>>, <<70464, 70464>>, <<70502, 70508>>,
             <<70512, 70516>>, <<70712, 70719>>, <<70722, 70724>>,
             <<70726, 70726>>, <<70750, 70750>>, <<70835, 70840>>,
             <<70842, 70842>>, <<70847, 70848>>, <<70850, 70851>>,
             <<71090, 71093>>, <<71100, 71101>>, <<71103, 71104>>,
             <<71132, 71133>>, <<71219, 71226>>, <<71229, 71229>>,
             <<71231, 71232>>, <<71339, 71339>>, <<71341, 71341>>,
             <<71344, 71349>>, <<71351, 71351>>, <<71453, 71455>>,
             <<71458, 71461>>, <<71463, 71467>>, <<71727, 71735>>,
             <<71737, 71738>>, <<71995, 71996>>, <<71998, 71998>>,
             <<72003, 72003>>, <<72148, 72151>>, <<72154, 72155>>,
             <<72160, 72160>>, <<72193, 72202>>, <<72243, 72248>>,
             <<72251, 72254>>, <<72263, 72263>>, <<72273, 72278>>,
             <<72281, 72283>>, <<72330, 72342>>, <<72344, 72345>>,
             <<72752, 72758>>, <<72760, 72765>>, <<72767, 72767>>,
             <<72850, 72871>>, <<72874, 72880>>, <<72882, 72883>>,
             <<72885, 72886>>, <<73009, 73014>>, <<73018, 73018>>,
             <<73020, 73021>>, <<73023, 73029>>, <<73031, 73031>>,
             <<73104, 73105>>, <<73109, 73109>>, <<73111, 73111>>,
             <<73459, 73460>>, <<78896, 78904>>, <<92912, 92916>>,
             <<92976, 92982>>, <<92992, 92995>>, <<94031, 94031>>,
             <<94095, 94111>>, <<94176, 94177>>, <<94179, 94180>>,
             <<110576, 110579>>, <<110581, 110587>>, <<110589, 110590>>,
             <<113821, 113822>>, <<113824, 113827>>, <<118528, 118573>>,
             <<118576, 118598>>, <<119143, 119145>>, <<119155, 119170>>,
             <<119173, 119179>>, <<119210, 119213>>, <<119362, 119364>>,
             <<121344, 121398>>, <<121403, 121452>>, <<121461, 121461>>,
             <<121476, 121476>>, <<121499, 121503>>, <<121505, 121519>>,
             <<122880, 122886>>, <<122888, 122904>>, <<122907, 122913>>,
             <<122915, 122916>>, <<122918, 122922>>, <<123184, 123197>>,
             <<123566, 123566>>, <<123628, 123631>>, <<125136, 125142>>,
             <<125252, 125259>>, <<127995, 127999>>, <<917505, 917505>>,
             <<917536, 917631>>, <<917760, 917999>>})

\* the characters with the property Cased
Cased ==
    {"A", "B", "C", "D", "E", "F", "G", "H", "I", "J", "K", "L", "M", "N",
     "O", "P", "Q", "R", "S", "T", "U", "V", "W", "X", "Y", "Z", "a", "b",
     "c", "d", "e", "f", "g", "h", "i", "j", "k", "l", "m", "n", "o", "p",
     "q", "r", "s", "t", "u", "v", "w", "x", "y", "z", "ª", "µ", "º", "À",
     "Á", "Â", "Ã", "Ä", "Å", "Æ", "Ç", "È", "É", "Ê", "Ë", "Ì", "Í", "Î",
     "Ï", "Ð", "Ñ", "Ò", "Ó", "Ô", "Õ", "Ö", "Ø", "Ù", "Ú", "Û", "Ü", "Ý",
     "Þ", "ß", "à", "á", "â", "ã", "ä", "å", "æ", "ç", "è", "é", "ê", "ë",
     "ì", "í", "î", "ï", "ð", "ñ", "ò", "ó", "ô", "õ", "ö", "ø", "ù", "ú",
     "û", "ü", "ý", "þ", "ÿ"} \cup
    CharsOf({<<256, 442>>, <<444, 447>>, <<452, 659>>, <<661, 696>>,
             <<704, 705>>, <<736, 740>>, <<837, 837>>, <<880, 883>>,
             <<886, 887>>, <<890, 893>>, <<895, 895>>, <<902, 902>>,
             <<904, 906>>, <<908, 908>>, <<910, 929>>, <<931, 1013>>,
             <<1015, 1153>>, <<1162, 1327>>, <<1329, 1366>>, <<1376, 1416>>,
             <<4256, 4293>>, <<4295, 4295>>, <<4301, 4301>>, <<4304, 4346>>,
             <<4349, 4351>>, <<5024, 5109>>, <<5112, 5117>>, <<7296, 7304>>,
             <<7312, 7354>>, <<7357, 7359>>, <<7424, 7615>>, <<7680, 7957>>,
             <<7960, 7965>>, <<7968, 8005>>, <<8008, 8013>>, <<8016, 8023>>,
             <<8025, 8025>>, <<8027, 8027>>, <<8029, 8029>>, <<8031, 8061>>,
             <<8064, 8116>>, <<8118, 8124>>, <<8126, 8126>>, <<8130, 8132>>,
             <<8134, 8140>>, <<8144, 8147>>, <<8150, 8155>>, <<8160, 8172>>,
             <<8178, 8180>>, <<8182, 8188>>, <<8305, 8305>>, <<8319, 8319>>,
             <<8336, 8348>>, <<8450, 8450>>, <<8455, 8455>>, <<8458, 8467>>,
             <<8469, 8469>>, <<8473, 8477>>, <<8484, 8484>>, <<8486, 8486>>,
             <<8488, 8488>>, <<8490, 8493>>, <<8495, 8500>>, <<8505, 8505>>,
             <<8508, 8511>>, <<8517, 8521>>, <<8526, 8526>>, <<8544, 8575>>,
             <<8579, 8580>>, <<9398, 9449>>, <<11264, 11492>>,
             <<11499, 11502>>, <<11506, 11507>>, <<11520, 11557>>,
             <<11559, 11559>>, <<11565, 11565>>, <<42560, 42605>>,
             <<42624, 42653>>, <<42786, 42887>>, <<42891, 42894>>,
             <<42896, 42954>>, <<42960, 42961>>, <<42963, 42963>>,
             <<42965, 42969>>, <<42997, 42998>>, <<43000, 43002>>,
             <<43824, 43866>>, <<43868, 43880>>, <<43888, 43967>>,
             <<64256, 64262>>, <<64275, 64279>>, <<65313, 65338>>,
             <<65345, 65370>>, <<66560, 66639>>, <<66736, 66771>>,
             <<66776, 66811>>, <<66928, 66938>>, <<66940, 66954>>,
             <<66956, 66962>>, <<66964, 66965>>, <<66967, 66977>>,
             <<66979, 66993>>, <<66995, 67001>>, <<67003, 67004>>,
             <<67456, 67456>>, <<67459, 67461>>, <<67463, 67504>>,
             <<67506, 67514>>, <<68736, 68786>>, <<68800, 68850>>,
             <<71840, 71903>>, <<93760, 93823>>, <<119808, 119892>>,
             <<119894, 119964>>, <<119966, 119967>>, <<119970, 119970>>,
             <<119973, 119974>>, <<119977, 119980>>, <<119982, 119993>>,
             <<119995, 119995>>, <<119997, 120003>>, <<120005, 120069>>,
             <<120071, 120074>>, <<120077, 120084>>, <<120086, 120092>>,
             <<120094, 120121>>, <<120123, 120126>>, <<120128, 120132>>,
             <<120134, 120134>>, <<120138, 120144>>, <<120146, 120485>>,
             <<120488, 120512>>, <<120514, 120538>>, <<120540, 120570>>,
             <<120572, 120596>>, <<120598, 120628>>, <<120630, 120654>>,
             <<120656, 120686>>, <<120688, 120712>>, <<120714, 120744>>,
             <<120746, 120770>>, <<120772, 120779>>, <<122624, 122633>>,
             <<122635, 122654>>, <<125184, 125251>>, <<127280, 127305>>,
             <<127312, 127337>>, <<127344, 127369>>})

\* GREEK CAPITAL LETTER SIGMA at position i lowers to the final sigma when,
\* case-ignorable characters skipped, a cased character precedes it and none
\* follows it
FinalSigma(s, i) ==
    LET before == {j \in 1..(i - 1) : s[j] \notin CaseIgnorable}
        after == {j \in (i + 1)..Len(s) : s[j] \notin CaseIgnorable}
    IN  /\ before # {}
        /\ s[CHOOSE j \in before : \A k \in before : k <= j] \in Cased
        /\ \/ after = {}
           \/ s[CHOOSE j \in after : \A k \in after : j <= k] \notin Cased

RECURSIVE LowerFrom(_, _)
LowerFrom(s, i) ==
    IF i > Len(s) THEN <<>>
    ELSE (IF s[i] = "U+03A3" /\ FinalSigma(s, i) THEN <<"U+03C2">> ELSE LowerChar(s[i]))
         \o LowerFrom(s, i + 1)

\* str.lower
Lower(s) == LowerFrom(s, 1)

\* str.isdigit
IsDigit(s) == Len(s) > 0 /\ \A i \in 1..Len(s) : s[i] \in IsDigitChars

\* str.split(): the maximal pieces free of whitespace, in order
RECURSIVE SplitFrom(_, _, _)
SplitFrom(s, i, word) ==
    IF i > Len(s)
    THEN (IF word = <<>> THEN <<>> ELSE <<word>>)
    ELSE IF s[i] \in Whitespace
         THEN (IF word = <<>> THEN <<>> ELSE <<word>>) \o SplitFrom(s, i + 1, <<>>)
         ELSE SplitFrom(s, i + 1, Append(word, s[i]))

Split(s) == SplitFrom(s, 1, <<>>)

-----------------------------------------------------------------------------
(* Gateway responses: an ordered dict is a sequence of <<key, value>> pairs  *)
(* in insertion order; a value is <<python type, text>>.                     *)

PyStr(x) == <<"str", x>>
PyInt(x) == <<"int", x>>
PyNone == <<"NoneType", "None">>
\* a response is [is_dict, items]; a response that is no dict has no items
Dict(items) == [is_dict |-> TRUE, items |-> items]
NotADict == [is_dict |-> FALSE, items |-> <<>>]

K_ResponseCode == <<"R","e","s","p","o","n","s","e","C","o","d","e">>
K_errorCode == <<"e","r","r","o","r","C","o","d","e">>
K_ResultCode == <<"R","e","s","u","l","t","C","o","d","e">>
K_CheckoutRequestID ==
    <<"C","h","e","c","k","o","u","t","R","e","q","u","e","s","t","I","D">>
K_requestId == <<"r","e","q","u","e","s","t","I","d">>
K_ResponseDescription ==
    <<"R","e","s","p","o","n","s","e","D","e","s","c","r","i","p","t","i","o","n">>
K_errorMessage == <<"e","r","r","o","r","M","e","s","s","a","g","e">>
K_message == <<"m","e","s","s","a","g","e">>
K_detail == <<"d","e","t","a","i","l">>

\* key in response
HasKey(d, k) == \E i \in 1..Len(d) : d[i][1] = k

\* response.get(key): None when the key is missing
Get(d, k) ==
    IF HasKey(d, k) THEN d[CHOOSE i \in 1..Len(d) : d[i][1] = k][2] ELSE PyNone

\* value == 0 in Python: the int 0, the floats 0.0 and -0.0 and False compare
\* equal to 0
EqualsIntZero(v) ==
    v \in {PyInt("0"), <<"float", "0.0">>, <<"float", "-0.0">>, <<"bool", "False">>}

-----------------------------------------------------------------------------
(* v4 mpesa_tool.py : MpesaTillTool._run                                     *)

\* the three call sites of client.initiate_payment in _run
MaxAttempts == 3

\* "Format phone number if needed"
TillFormatPhone(phone_number) ==
    LET stripped == IF StartsWith(phone_number, <<"+">>)
                    THEN Tail(phone_number) ELSE phone_number
    IN  IF StartsWith(stripped, <<"0">>)
        THEN <<"2", "5", "4">> \o Tail(stripped)
        ELSE stripped

\* The nested try blocks around client.initiate_payment.  client.raises is
\* the number of leading calls on which the client raises; the first call that
\* does not raise returns client.response.  When all three raise, e1 is
\* raised again.
InitiateWithFallbacks(client) ==
    IF client.raises < 1
    THEN [raised |-> FALSE, attempts |-> 1, response |-> client.response]
    ELSE IF client.raises < 2
    THEN [raised |-> FALSE, attempts |-> 2, response |-> client.response]
    ELSE IF client.raises < MaxAttempts
    THEN [raised |-> FALSE, attempts |-> 3, response |-> client.response]
    ELSE [raised |-> TRUE, attempts |-> 3, response |-> NotADict]

\* the keys, by position in dict order, ending in "code" whose value is "0" or 0
ZeroCodeKeys(items) ==
    {i \in 1..Len(items) :
        /\ EndsWith(Lower(items[i][1]), <<"c", "o", "d", "e">>)
        /\ (items[i][2] = PyStr("0") \/ EqualsIntZero(items[i][2]))}

\* the keys, by position in dict order, with "id" in their lower-cased name
IdKeys(items) ==
    {i \in 1..Len(items) : Contains(Lower(items[i][1]), <<"i", "d">>)}

Min(S) == CHOOSE x \in S : \A y \in S : x <= y
Max(S) == CHOOSE x \in S : \A y \in S : y <= x

\* a classification in which the first of ResponseCode and errorCode that is
\* present decides, a non-zero value of it meaning failure
ClassifyFirstPresent(response) ==
    LET d == response.items
    IN  IF ~response.is_dict
        THEN [success |-> FALSE, checkout_id |-> PyNone]
        ELSE IF HasKey(d, K_ResponseCode)
        THEN [success |-> Get(d, K_ResponseCode) = PyStr("0"),
              checkout_id |-> IF Get(d, K_ResponseCode) = PyStr("0")
                              THEN Get(d, K_CheckoutRequestID) ELSE PyNone]
        ELSE IF HasKey(d, K_errorCode)
        THEN [success |-> Get(d, K_errorCode) = PyStr("0"),
              checkout_id |-> IF Get(d, K_errorCode) = PyStr("0")
                              THEN Get(d, K_requestId) ELSE PyNone]
        ELSE IF ZeroCodeKeys(d) # {}
        THEN [success |-> TRUE,
              checkout_id |-> IF IdKeys(d) # {} THEN d[Min(IdKeys(d))][2] ELSE PyNone]
        ELSE [success |-> FALSE, checkout_id |-> PyNone]

\* "Try to adapt to different response formats": success and checkout_id
ClassifyResponse(response) ==
    LET d == response.items
    IN  IF ~response.is_dict
        THEN [success |-> FALSE, checkout_id |-> PyNone]
        ELSE IF HasKey(d, K_ResponseCode) /\ Get(d, K_ResponseCode) = PyStr("0")
        THEN [success |-> TRUE, checkout_id |-> Get(d, K_CheckoutRequestID)]
        ELSE IF HasKey(d, K_errorCode) /\ Get(d, K_errorCode) = PyStr("0")
        THEN [success |-> TRUE, checkout_id |-> Get(d, K_requestId)]
        ELSE IF ZeroCodeKeys(d) # {}
        THEN [success |-> TRUE,
              checkout_id |-> IF IdKeys(d) # {} THEN d[Min(IdKeys(d))][2] ELSE PyNone]
        ELSE [success |-> FALSE, checkout_id |-> PyNone]

\* "Try to extract error message": the first description field present
ErrorKeys == <<K_ResponseDescription, K_errorMessage, K_message, K_detail>>

NoDesc == <<"NoDesc", "">>

ErrorDescription(response) ==
    LET d == response.items
        present == {j \in 1..Len(ErrorKeys) : HasKey(d, ErrorKeys[j])}
    IN  IF ~response.is_dict \/ present = {}
        THEN NoDesc
        ELSE Get(d, ErrorKeys[Min(present)])

\* The body of _run's try block.  raised = TRUE: an exception leaves the block.
\* attempts, sent_phone and sent_amount record the calls made to
\* client.initiate_payment.
TillBody(phone_number, amount, client) ==
    LET sent == TillFormatPhone(phone_number)
        call == InitiateWithFallbacks(client)
        cls  == ClassifyResponse(call.response)
    IN  IF call.raised
        THEN [raised |-> TRUE, success |-> FALSE,
              message |-> [kind |-> "none", desc |-> NoDesc],
              checkout_request_id |-> PyNone, attempts |-> call.attempts,
              sent_phone |-> sent, sent_amount |-> amount]
        ELSE IF cls.success
        THEN [raised |-> FALSE, success |-> TRUE,
              message |-> [kind |-> "initiated", desc |-> NoDesc],
              checkout_request_id |-> cls.checkout_id, attempts |-> call.attempts,
              sent_phone |-> sent, sent_amount |-> amount]
        ELSE [raised |-> FALSE, success |-> FALSE,
              message |-> [kind |-> "failed", desc |-> ErrorDescription(call.response)],
              checkout_request_id |-> PyNone, attempts |-> call.attempts,
              sent_phone |-> sent, sent_amount |-> amount]

\* "except Exception as e": the exception becomes a failure result
TillExcept(body) ==
    IF body.raised
    THEN [body EXCEPT !.raised = FALSE, !.success = FALSE,
                      !.message = [kind |-> "error", desc |-> NoDesc]]
    ELSE body

MpesaTillTool_run(phone_number, amount, client) ==
    TillExcept(TillBody(phone_number, amount, client))

-----------------------------------------------------------------------------
(* v4 mpesa_tool.py : MpesaTransactionStatusTool._run                        *)

\* Python truthiness of a parsed JSON value
Truthy(v) ==
    v \notin {PyNone, PyStr(""), PyInt("0"), <<"float", "0.0">>, <<"float", "-0.0">>,
              <<"bool", "False">>, <<"list", "[]">>, <<"dict", "{}">>}

\* a status check that goes to the gateway without looking for an identifier
StatusBodyUnchecked(query, client) ==
    IF query.json = "invalid"
    THEN [exc |-> "JSONDecodeError", text |-> "none", gateway_calls |-> 0]
    ELSE IF query.json = "not_object"
    THEN [exc |-> "Exception", text |-> "none", gateway_calls |-> 0]
    ELSE IF ~client.has_method
    THEN [exc |-> "Exception", text |-> "none", gateway_calls |-> 0]
    ELSE IF client.raises \/ ~client.response.is_dict
    THEN [exc |-> "Exception", text |-> "none", gateway_calls |-> 1]
    ELSE IF Get(client.response.items, K_ResponseCode) = PyStr("0")
    THEN [exc |-> "none", text |-> "Transaction status check initiated successfully.",
          gateway_calls |-> 1]
    ELSE [exc |-> "none", text |-> "Failed to check transaction status.",
          gateway_calls |-> 1]

\* query is what json.loads makes of the input string: json = "invalid" (it
\* raises JSONDecodeError), "not_object" (a list, a number: no .get) or
\* "object" with the two identifiers (PyNone when missing or null).
\* client.has_method: the client object has a check_transaction_status
\* method; without one the attribute lookup raises before any call is made.
\* client.raises: the method raises; otherwise it returns client.response.
\* exc names the exception that leaves the try block, "none" when it returns.
StatusBody(query, client) ==
    IF query.json = "invalid"
    THEN [exc |-> "JSONDecodeError", text |-> "none", gateway_calls |-> 0]
    ELSE IF query.json = "not_object"
    THEN [exc |-> "Exception", text |-> "none", gateway_calls |-> 0]
    ELSE IF ~Truthy(query.transaction_id) /\ ~Truthy(query.originator_conversation_id)
    THEN [exc |-> "none", text |-> "Error: Either transaction_id or originator_conversation_id must be provided.",
          gateway_calls |-> 0]
    ELSE IF ~client.has_method
    THEN [exc |-> "Exception", text |-> "none", gateway_calls |-> 0]
    ELSE IF client.raises
    THEN [exc |-> "Exception", text |-> "none", gateway_calls |-> 1]
    ELSE IF ~client.response.is_dict
    THEN [exc |-> "Exception", text |-> "none", gateway_calls |-> 1]
    ELSE IF Get(client.response.items, K_ResponseCode) = PyStr("0")
    THEN [exc |-> "none", text |-> "Transaction status check initiated successfully.",
          gateway_calls |-> 1]
    ELSE [exc |-> "none", text |-> "Failed to check transaction status.",
          gateway_calls |-> 1]

\* "except json.JSONDecodeError" and "except Exception as e"
StatusExcept(body) ==
    IF body.exc = "JSONDecodeError"
    THEN [body EXCEPT !.exc = "none", !.text = "Error: Invalid JSON input."]
    ELSE IF body.exc = "Exception"
    THEN [body EXCEPT !.exc = "none", !.text = "Error checking transaction status"]
    ELSE body

MpesaTransactionStatusTool_run(query, client) ==
    StatusExcept(StatusBody(query, client))

-----------------------------------------------------------------------------
(* Inputs of the tool-level runs *)

\* the most fields a modelled gateway response carries
MaxFields == 2

\* valid 9-digit subscriber numbers
Subscribers ==
    { <<"7","1","2","3","4","5","6","7","8">>,
      <<"1","1","0","0","0","0","0","0","1">>,
      <<"7","0","0","2","5","4","7","0","0">> }

\* phone_number arguments (str, as declared): a subscriber number bare and with
\* each prefix, numbers of the wrong length or alphabet, the empty string
MalformedPhones ==
    { <<"1","2","3","4","5">>,
      <<"a","b","c">>,
      <<>>,
      <<"0","7","1","2">>,
      <<"2","5","4","7","1","2","3","4","5","6","7","8","9","9">>,
      <<"+","+","2","5","4","7","1","2","3","4","5","6","7","8">> }

PhoneArgs ==
    UNION { { n, <<"0">> \o n, <<"+">> \o n, <<"2","5","4">> \o n,
              <<"+","2","5","4">> \o n, <<"+","0">> \o n } : n \in Subscribers }
    \cup MalformedPhones

Amounts == {100}

CodeKeys == {K_ResponseCode, K_errorCode, K_ResultCode}
IdentKeys == {K_CheckoutRequestID, K_requestId}
DescKeys == {K_ResponseDescription, K_errorMessage}

\* the <<key, value>> pairs a modelled response is made of
Fields ==
    (CodeKeys \X {PyStr("0"), PyInt("0"), PyStr("1")})
    \cup {<<K_ResultCode, <<"float", "-0.0">> >>}
    \cup (IdentKeys \X {PyStr("ws_CO_1")})
    \cup (DescKeys \X {PyStr("Insufficient funds")})

DistinctKeys(items) ==
    \A i, j \in 1..Len(items) : i # j => items[i][1] # items[j][1]

Responses ==
    {NotADict} \cup
    { Dict(items) : items \in
        { it \in UNION { [1..n -> Fields] : n \in 0..MaxFields } : DistinctKeys(it) } }

ClientBehaviours == [raises : 0..MaxAttempts, response : Responses]

TillCalls ==
    [tool : {"mpesa_till_payment"}, phone_number : PhoneArgs, amount : Amounts,
     client : ClientBehaviours]

StatusQueries ==
    { [json |-> "invalid", transaction_id |-> PyNone, originator_conversation_id |-> PyNone],
      [json |-> "not_object", transaction_id |-> PyNone, originator_conversation_id |-> PyNone] }
    \cup [json : {"object"},
          transaction_id : {PyNone, PyStr(""), <<"float", "0.0">>, PyStr("NEF61H8J60")},
          originator_conversation_id : {PyNone, PyStr("AG_2019")}]

StatusClients ==
    [has_method : BOOLEAN,
     raises : BOOLEAN,
     response : {NotADict,
                 Dict(<< <<K_ResponseCode, PyStr("0")>> >>),
                 Dict(<< <<K_ResponseCode, PyStr("1")>> >>),
                 Dict(<<>>)}]

StatusCalls ==
    [tool : {"mpesa_transaction_status"}, query : StatusQueries, client : StatusClients]

-----------------------------------------------------------------------------
(* v4 chat_agent.py : ChatAgent                                              *)

Users == {"u1", "u2"}

\* the threads that call the methods of one ChatAgent object: main.py serves
\* its HTTP handlers on one thread and starts another for the Telegram bot
Threads == {"fastapi", "telegram"}

M_pay100 == <<"p","a","y"," ","1","0","0">>
M_till == <<"1","7","4","3","7","9">>
M_yes == <<"Y","e","s">>
M_phone == <<"0","7","1","2","3","4","5","6","7","8">>
M_use_number == <<"u","s","e"," ","t","h","i","s"," ","n","u","m","b","e","r"," ","7","1","2","3","4","5","6","7","8">>

M_authorize == <<"I"," ","a","u","t","h","o","r","i","z","e"," ","i","t">>
M_use_long == <<"u","s","e"," ","t","h","i","s"," ","n","u","m","b","e","r"," ","1","2","3","4","5","6","7","8","9","0">>

Messages == {M_pay100, M_till, M_yes, M_phone, M_use_number, M_authorize, M_use_long}

\* confirmation_phrases of _is_payment_confirmation, in list order
confirmation_phrases ==
    << <<"c","o","n","f","i","r","m"," ","p","a","y","m","e","n","t">>,
       <<"p","r","o","c","e","e","d"," ","w","i","t","h"," ","p","a","y","m","e","n","t">>,
       <<"y","e","s"," ","p","r","o","c","e","e","d">>,
       <<"g","o"," ","a","h","e","a","d">>,
       <<"p","a","y"," ","n","o","w">>,
       <<"c","o","n","f","i","r","m">>,
       <<"p","r","o","c","e","e","d">>,
       <<"p","a","y">>,
       <<"y","e","s">> >>

\* payment_keywords of _check_and_block_payments, in list order
payment_keywords ==
    << <<"p","r","o","c","e","e","d">>,
       <<"c","o","n","f","i","r","m">>,
       <<"p","a","y">>,
       <<"y","e","s">>,
       <<"a","u","t","h","o","r","i","z","e">>,
       <<"g","o"," ","a","h","e","a","d">> >>

\* max_iterations of the AgentExecutor
MaxIterations == 3

is_payment_confirmation(message) ==
    \E k \in 1..Len(confirmation_phrases) :
        Contains(Lower(message), confirmation_phrases[k])

\* any(keyword in original_message.lower() for keyword in payment_keywords)
HasPaymentKeyword(message) ==
    \E k \in 1..Len(payment_keywords) :
        Contains(Lower(message), payment_keywords[k])

\* the positions where (?:254|\+254|0)([17]\d{8}) matches, as <<start, group start>>
RegexPrefixes == << <<"2","5","4">>, <<"+","2","5","4">>, <<"0">> >>

PhoneMatchAt(message, i) ==
    { g \in i..(Len(message) + 1) :
        /\ \E k \in 1..Len(RegexPrefixes) :
              /\ g = i + Len(RegexPrefixes[k])
              /\ g - 1 <= Len(message)
              /\ SubSeq(message, i, g - 1) = RegexPrefixes[k]
        /\ g + 8 <= Len(message)
        /\ message[g] \in {"1", "7"}
        /\ \A j \in (g + 1)..(g + 8) : message[j] \in Digits }

\* re.findall(...)[0]: the group of the leftmost match, None when there is none
FirstPhoneMatch(message) ==
    LET starts == {i \in 1..Len(message) : PhoneMatchAt(message, i) # {}}
    IN  IF starts = {}
        THEN None
        ELSE LET g == CHOOSE x \in PhoneMatchAt(message, Min(starts)) : TRUE
             IN  SubSeq(message, g, g + 8)

\* "Format properly for M-Pesa" in the regex branch
FormatMatched(phone) ==
    IF StartsWith(phone, <<"0">>) THEN <<"2","5","4">> \o Tail(phone)
    ELSE IF ~StartsWith(phone, <<"2","5","4">>) THEN <<"2","5","4">> \o phone
    ELSE phone

\* "Format properly for M-Pesa" in the fallback branch
FormatPart(phone) ==
    IF StartsWith(phone, <<"0">>) THEN <<"2","5","4">> \o Tail(phone)
    ELSE IF StartsWith(phone, <<"+","2","5","4">>) THEN Tail(phone)
    ELSE IF ~StartsWith(phone, <<"2","5","4">>) THEN <<"2","5","4">> \o phone
    ELSE phone

\* the first part of message.split() that is all digits and at least 9 long
FirstDigitPart(message) ==
    LET parts == Split(message)
        ok == {i \in 1..Len(parts) : IsDigit(parts[i]) /\ Len(parts[i]) >= 9}
    IN  IF ok = {} THEN None ELSE parts[Min(ok)]

\* _extract_and_store_phone_number: the phone number to store, None for no store
ExtractedPhone(message) ==
    IF FirstPhoneMatch(message) # None
    THEN FormatMatched(FirstPhoneMatch(message))
    ELSE IF Contains(Lower(message), <<"m","y"," ","p","h","o","n","e"," ","n","u","m","b","e","r"," ","i","s">>)
            \/ Contains(Lower(message), <<"u","s","e"," ","t","h","i","s"," ","n","u","m","b","e","r">>)
    THEN (IF FirstDigitPart(message) # None
          THEN FormatPart(FirstDigitPart(message))
          ELSE None)
    ELSE None

\* the session process_message creates for a user it has not seen
DefaultSession ==
    [payment_confirmed |-> FALSE, phone_number |-> None, pending_payment |-> None]

\* dict assignment d[k] = v
Put(d, k, v) == [x \in DOMAIN d \cup {k} |-> IF x = k THEN v ELSE d[x]]

\* what the three string scans give for each modelled message, computed once
MessageFacts ==
    [m \in Messages |->
        [confirms |-> is_payment_confirmation(m),
         keyword  |-> HasPaymentKeyword(m),
         phone    |-> ExtractedPhone(m)]]

\* "if user_id not in self.user_sessions: self.user_sessions[user_id] = {...}"
CreateSession(sessions, user_id) ==
    IF user_id \in DOMAIN sessions THEN sessions
    ELSE Put(sessions, user_id, DefaultSession)

\* a process_message that records every confirmation, pending payment or not
RecordConfirmation_unguarded(sessions, message, user_id) ==
    IF MessageFacts[message].confirms
    THEN [sessions EXCEPT ![user_id].payment_confirmed = TRUE]
    ELSE sessions

\* "if self._is_payment_confirmation(message) and
\* self.user_sessions[user_id].get("pending_payment"): ... = True", for a
\* user who has a session
RecordConfirmation(sessions, message, user_id) ==
    IF MessageFacts[message].confirms /\ sessions[user_id].pending_payment # None
    THEN [sessions EXCEPT ![user_id].payment_confirmed = TRUE]
    ELSE sessions

\* self.user_sessions[user_id]["phone_number"] = phone, for a user who has a
\* session
StorePhone(sessions, message, user_id) ==
    IF MessageFacts[message].phone # None
    THEN [sessions EXCEPT ![user_id].phone_number = MessageFacts[message].phone]
    ELSE sessions

\* What the agent executor does in one invoke, beyond the tool calls it makes:
\* raises = TRUE: invoke (or building the executor) raises; otherwise it
\* returns {"output": output, "intermediate_steps": steps}.
\* setattr_raises: whether assigning tool_call.args on a step raises, which
\* the class of the step object decides.
Outputs == {"confirmation_prompt", "other"}

AgentBehaviours == [raises : BOOLEAN, output : Outputs, setattr_raises : BOOLEAN]

\* _check_and_block_payments: a payment step is blocked when the message
\* holds no payment keyword
Blocks(message, payment_steps) == payment_steps > 0 /\ ~MessageFacts[message].keyword

\* the try block of process_message once the agent has run its tools:
\* kind "exception" is an exception that leaves the block
ProcessTry(message, payment_steps, agent) ==
    IF agent.raises
    THEN [kind |-> "exception", text |-> "none", blocked |-> FALSE]
    ELSE IF Blocks(message, payment_steps) /\ agent.setattr_raises
    THEN [kind |-> "exception", text |-> "none", blocked |-> TRUE]
    ELSE [kind |-> "output", text |-> agent.output,
          blocked |-> Blocks(message, payment_steps)]

\* "except Exception as e": the apology is returned
ProcessExcept(body) ==
    IF body.kind = "exception"
    THEN [body EXCEPT !.kind = "apology",
                      !.text = "I'm sorry, I encountered an error"]
    ELSE body

NoTurn == [message |-> <<>>, user_id |-> "none"]
NoReply == [kind |-> "none", text |-> "none", blocked |-> FALSE]

\* the tool arguments an agent passes (the tool's args_schema admits only str)
AgentPhoneArgs ==
    { <<"2","5","4","7","1","2","3","4","5","6","7","8">>,
      <<"7","1","2","3","4","5","6","7","8">>,
      <<"1","2","3","4","5">> }

AgentClients ==
    [raises : 0..MaxAttempts,
     response : {NotADict,
                 Dict(<< <<K_ResponseCode, PyStr("0")>>, <<K_CheckoutRequestID, PyStr("ws_CO_1")>> >>),
                 Dict(<< <<K_ResponseCode, PyStr("1")>>,
                         <<K_ResponseDescription, PyStr("Insufficient funds")>> >>)}]

\* how far a user's messages so far follow the scenario "pay 100", "174379"
ScenarioAfter(progress, message) ==
    IF progress = "start" /\ message = M_pay100 THEN "pay100"
    ELSE IF progress = "pay100" /\ message = M_till THEN "pay100_till"
    ELSE "off"

\* __init__, statement by statement: the attribute each one assigns
init_assigns ==
    <<"memory_handler", "tools", "agent_executors", "user_sessions",
      "transaction_status_tool">>

\* the attributes of self that the right-hand side of a statement of __init__
\* reads: _get_tools(), called for "tools", appends self.transaction_status_tool
init_reads(attribute) ==
    IF attribute = "tools" THEN {"transaction_status_tool"} ELSE {}

\* ChatAgent(): the statements run in order, and one that reads an attribute
\* no earlier statement has assigned raises AttributeError, which leaves
\* __init__ with the attributes assigned so far and binds no object
ChatAgent_init ==
    LET unset(i) == init_reads(init_assigns[i])
                        \ {init_assigns[j] : j \in 1..(i - 1)}
        failing == {i \in 1..Len(init_assigns) : unset(i) # {}}
    IN  IF failing = {}
        THEN [raised |-> FALSE, exception |-> "none",
              attributes |-> {init_assigns[j] : j \in 1..Len(init_assigns)}]
        ELSE [raised |-> TRUE, exception |-> "AttributeError",
              attributes |-> {init_assigns[j] : j \in 1..(Min(failing) - 1)}]

\* The object the methods of ChatAgent are applied to: agent_executors and
\* user_sessions as __init__ assigns them, both empty. ChatAgent() as written
\* does not get that far (ChatAgent_init); the methods are modelled on an
\* object that has these attributes.
AgentInit ==
    /\ user_sessions = [u \in {} |-> DefaultSession]
    /\ agent_executors = {}
    /\ pc = [t \in Threads |-> "idle"]
    /\ cur = [t \in Threads |-> NoTurn]
    /\ payment_runs = [t \in Threads |-> 0]
    /\ reply = [t \in Threads |-> NoReply]
    /\ scenario = [u \in Users |-> "start"]

\* an exception that leaves the method: none of these statements is inside a
\* try block
Raised(exception) == [kind |-> "exception", text |-> exception, blocked |-> FALSE]

\* what clear_user_memory returns
ReturnedNone == [kind |-> "None", text |-> "none", blocked |-> FALSE]

\* thread t leaves the method it is in with the exception
Raise(t, exception) ==
    /\ reply' = [reply EXCEPT ![t] = Raised(exception)]
    /\ pc' = [pc EXCEPT ![t] = "idle"]
    /\ cur' = [cur EXCEPT ![t] = NoTurn]

\* process_message(message, user_id) is called on thread t and creates the
\* session of a user it does not know
ProcessMessageStart(t, message, user_id) ==
    /\ pc[t] = "idle"
    /\ user_sessions' = CreateSession(user_sessions, user_id)
    /\ scenario' = [scenario EXCEPT ![user_id] = ScenarioAfter(@, message)]
    /\ pc' = [pc EXCEPT ![t] = "confirm"]
    /\ cur' = [cur EXCEPT ![t] = [message |-> message, user_id |-> user_id]]
    /\ reply' = [reply EXCEPT ![t] = NoReply]
    /\ payment_runs' = [payment_runs EXCEPT ![t] = 0]
    /\ UNCHANGED agent_executors

\* the confirmation check: message.lower() raises AttributeError on a message
\* that is no str; for a confirming message the session is read, which raises
\* KeyError when the session has been deleted since it was created
CheckConfirmation(t) ==
    /\ pc[t] = "confirm"
    /\ IF cur[t].message = None
       THEN Raise(t, "AttributeError") /\ UNCHANGED user_sessions
       ELSE IF MessageFacts[cur[t].message].confirms
               /\ cur[t].user_id \notin DOMAIN user_sessions
       THEN Raise(t, "KeyError") /\ UNCHANGED user_sessions
       ELSE /\ user_sessions' =
                  IF cur[t].user_id \in DOMAIN user_sessions
                  THEN RecordConfirmation(user_sessions, cur[t].message, cur[t].user_id)
                  ELSE user_sessions
            /\ pc' = [pc EXCEPT ![t] = "extract"]
            /\ UNCHANGED <<cur, reply>>
    /\ UNCHANGED <<agent_executors, payment_runs, scenario>>

\* _extract_and_store_phone_number: a phone number found in the message is
\* written to the session, which raises KeyError when the session has been
\* deleted
ExtractAndStorePhone(t) ==
    /\ pc[t] = "extract"
    /\ IF MessageFacts[cur[t].message].phone # None
          /\ cur[t].user_id \notin DOMAIN user_sessions
       THEN Raise(t, "KeyError") /\ UNCHANGED user_sessions
       ELSE /\ user_sessions' =
                  IF cur[t].user_id \in DOMAIN user_sessions
                  THEN StorePhone(user_sessions, cur[t].message, cur[t].user_id)
                  ELSE user_sessions
            /\ pc' = [pc EXCEPT ![t] = "lookup"]
            /\ UNCHANGED <<cur, reply>>
    /\ UNCHANGED <<agent_executors, payment_runs, scenario>>

\* the cache lookup of _get_agent_executor: a cached executor is returned at
\* once, otherwise the thread goes on to build one
LookupExecutor(t) ==
    /\ pc[t] = "lookup"
    /\ pc' = [pc EXCEPT ![t] = IF cur[t].user_id \in agent_executors
                               THEN "invoke" ELSE "build"]
    /\ UNCHANGED <<user_sessions, agent_executors, cur, payment_runs, reply, scenario>>

\* the rest of _get_agent_executor on thread t: after the requests that set up
\* the user's memory and the model, the executor is cached (executor_ok), or
\* one of them raises and process_message returns the apology of its except
\* clause
GetAgentExecutor(t, executor_ok) ==
    /\ pc[t] = "build"
    /\ IF executor_ok
       THEN /\ agent_executors' = agent_executors \cup {cur[t].user_id}
            /\ pc' = [pc EXCEPT ![t] = "invoke"]
            /\ UNCHANGED <<cur, reply>>
       ELSE /\ reply' = [reply EXCEPT ![t] =
                  ProcessExcept([kind |-> "exception", text |-> "none", blocked |-> FALSE])]
            /\ pc' = [pc EXCEPT ![t] = "idle"]
            /\ cur' = [cur EXCEPT ![t] = NoTurn]
            /\ UNCHANGED agent_executors
    /\ UNCHANGED <<user_sessions, payment_runs, scenario>>

BuildExecutor(t) == \E executor_ok \in BOOLEAN : GetAgentExecutor(t, executor_ok)

\* every run of the payment tool calls client.initiate_payment, whatever the
\* arguments and the client: _run reads neither the session nor the message
RunReachesGateway ==
    \A phone \in AgentPhoneArgs, amount \in Amounts, client \in AgentClients :
        MpesaTillTool_run(phone, amount, client).attempts >= 1

\* One agent iteration that calls mpesa_till_payment, and with it the gateway
AgentPaymentStep(t) ==
    /\ pc[t] = "invoke"
    /\ payment_runs[t] < MaxIterations
    /\ RunReachesGateway
    /\ payment_runs' = [payment_runs EXCEPT ![t] = @ + 1]
    /\ UNCHANGED <<user_sessions, agent_executors, pc, cur, reply, scenario>>

\* invoke returns or raises (agent); the steps are inspected; process_message
\* returns on thread t
InvokeReturns(t, agent) ==
    /\ pc[t] = "invoke"
    /\ reply' = [reply EXCEPT ![t] =
                    ProcessExcept(ProcessTry(cur[t].message, payment_runs[t], agent))]
    /\ pc' = [pc EXCEPT ![t] = "idle"]
    /\ cur' = [cur EXCEPT ![t] = NoTurn]
    /\ payment_runs' = [payment_runs EXCEPT ![t] = 0]
    /\ UNCHANGED <<user_sessions, agent_executors, scenario>>

ProcessMessageReturn(t) == \E agent \in AgentBehaviours : InvokeReturns(t, agent)

\* clear_user_memory(user_id) is called on thread t and clears the chat
\* history; DynamicMemoryHandler.clear_memory raises nothing, the history's
\* clear catching its own errors
clear_user_memory(t, user_id) ==
    /\ pc[t] = "idle"
    /\ pc' = [pc EXCEPT ![t] = "clear_executor"]
    /\ cur' = [cur EXCEPT ![t] = [message |-> <<>>, user_id |-> user_id]]
    /\ reply' = [reply EXCEPT ![t] = NoReply]
    /\ UNCHANGED <<user_sessions, agent_executors, payment_runs, scenario>>

\* "if user_id in self.agent_executors: del self.agent_executors[user_id]"
ClearExecutor(t) ==
    /\ pc[t] = "clear_executor"
    /\ agent_executors' = agent_executors \ {cur[t].user_id}
    /\ pc' = [pc EXCEPT ![t] = "clear_session"]
    /\ UNCHANGED <<user_sessions, cur, payment_runs, reply, scenario>>

\* "if user_id in self.user_sessions: del self.user_sessions[user_id]", after
\* which clear_user_memory returns
ClearSession(t) ==
    /\ pc[t] = "clear_session"
    /\ user_sessions' = [u \in DOMAIN user_sessions \ {cur[t].user_id} |-> user_sessions[u]]
    /\ pc' = [pc EXCEPT ![t] = "idle"]
    /\ cur' = [cur EXCEPT ![t] = NoTurn]
    /\ reply' = [reply EXCEPT ![t] = ReturnedNone]
    /\ UNCHANGED <<agent_executors, payment_runs, scenario>>

\* the statements of process_message, each one step of the thread that runs it
AgentNext ==
    \/ \E t \in Threads, m \in Messages, u \in Users :
          ProcessMessageStart(t, m, u) /\ UNCHANGED <<toolVars, v3Vars, v2Vars>>
    \/ \E t \in Threads : CheckConfirmation(t) /\ UNCHANGED <<toolVars, v3Vars, v2Vars>>
    \/ \E t \in Threads : ExtractAndStorePhone(t) /\ UNCHANGED <<toolVars, v3Vars, v2Vars>>
    \/ \E t \in Threads : LookupExecutor(t) /\ UNCHANGED <<toolVars, v3Vars, v2Vars>>
    \/ \E t \in Threads : BuildExecutor(t) /\ UNCHANGED <<toolVars, v3Vars, v2Vars>>
    \/ \E t \in Threads : AgentPaymentStep(t) /\ UNCHANGED <<toolVars, v3Vars, v2Vars>>
    \/ \E t \in Threads : ProcessMessageReturn(t) /\ UNCHANGED <<toolVars, v3Vars, v2Vars>>

\* the statements of clear_user_memory
ClearNext ==
    \/ \E t \in Threads, u \in Users :
          clear_user_memory(t, u) /\ UNCHANGED <<toolVars, v3Vars, v2Vars>>
    \/ \E t \in Threads : ClearExecutor(t) /\ UNCHANGED <<toolVars, v3Vars, v2Vars>>
    \/ \E t \in Threads : ClearSession(t) /\ UNCHANGED <<toolVars, v3Vars, v2Vars>>

-----------------------------------------------------------------------------
(* v3 main.py : the Neo4j User store, the chains and the callback handler    *)

\* the checkout ids the gateway issues in a run of the model
MaxCheckouts == 2

V3Users == {"254700000001", "254700000002"}

CheckoutId(i) == <<"ws_CO", i>>
CheckoutIds == {CheckoutId(i) : i \in 1..MaxCheckouts}

\* the CheckoutRequestID of a callback: an issued id, an id not yet issued, or
\* one the gateway never issues
CallbackIds == CheckoutIds \cup {CheckoutId(0)}

\* the ResultCode of a callback
ResultCodes == {PyInt("0"), PyInt("1032"), PyStr("0")}

\* what extract_amount finds in the message: nothing, or a number
V3Amounts == {PyNone, PyInt("100")}

\* what mpesa_client.initiate_payment does: raises, accepts with or without
\* a CheckoutRequestID in the response, rejects with a ResponseDescription or
\* with the errorCode and errorMessage of an error response, or returns no dict
V3Gateway ==
    {"raise", "accept", "accept_no_id", "reject", "reject_errorMessage", "not_a_dict"}

\* get_state: "idle" for a user with no node
get_state(phone_number) ==
    IF v3_state[phone_number] = Absent THEN "idle" ELSE v3_state[phone_number]

\* initiate_payment: the response dict the chain sees, an exception of the
\* client having become a rejection
V3Response(gateway, checkout_id) ==
    IF gateway = "raise"
    THEN Dict(<< <<K_ResponseCode, PyStr("1")>>, <<K_ResponseDescription, PyStr("Error")>> >>)
    ELSE IF gateway = "accept"
    THEN Dict(<< <<K_ResponseCode, PyStr("0")>>, <<K_CheckoutRequestID, checkout_id>> >>)
    ELSE IF gateway = "accept_no_id"
    THEN Dict(<< <<K_ResponseCode, PyStr("0")>> >>)
    ELSE IF gateway = "reject"
    THEN Dict(<< <<K_ResponseCode, PyStr("1")>>,
                 <<K_ResponseDescription, PyStr("Insufficient funds")>> >>)
    ELSE IF gateway = "reject_errorMessage"
    THEN Dict(<< <<K_errorCode, PyStr("400.002.02")>>,
                 <<K_errorMessage, PyStr("Bad Request - Invalid Amount")>> >>)
    ELSE NotADict

\* the response is accepted and carries the id to store
V3Accepted(response) ==
    /\ response.is_dict
    /\ Get(response.items, K_ResponseCode) = PyStr("0")
    /\ HasKey(response.items, K_CheckoutRequestID)

\* the text initiate_payment_chain returns for a response, once the gateway
\* has been called: kind "error" is the reply of its except clause, which
\* response.get on a non-dict and response["CheckoutRequestID"] on a missing
\* key lead to
V3Reply(response) ==
    IF ~response.is_dict
    THEN [kind |-> "error", desc |-> NoDesc]
    ELSE IF Get(response.items, K_ResponseCode) = PyStr("0")
    THEN (IF HasKey(response.items, K_CheckoutRequestID)
          THEN [kind |-> "initiated", desc |-> NoDesc]
          ELSE [kind |-> "error", desc |-> NoDesc])
    ELSE [kind |-> "failed",
          desc |-> IF HasKey(response.items, K_ResponseDescription)
                   THEN Get(response.items, K_ResponseDescription)
                   ELSE PyStr("Unknown error")]

NoV3Op ==
    [op |-> "none", user |-> "none", state_before |-> "none",
     gateway_called |-> FALSE, checkout_id |-> None, matched |-> FALSE,
     result_code |-> PyNone,
     response |-> NotADict, reply |-> [kind |-> "none", desc |-> NoDesc]]

V3Init ==
    /\ v3_state = [u \in V3Users |-> Absent]
    /\ v3_checkout = [u \in V3Users |-> None]
    /\ v3_issued = {}
    /\ v3_last = NoV3Op
    /\ v3_awaiting = [id \in CheckoutIds |-> "none"]

\* router choice ask_for_amount
ask_for_amount_chain(phone_number) ==
    /\ v3_state' = [v3_state EXCEPT ![phone_number] = "waiting_for_amount"]
    /\ v3_last' = [NoV3Op EXCEPT !.op = "ask", !.user = phone_number,
                                 !.state_before = get_state(phone_number)]
    /\ UNCHANGED <<v3_checkout, v3_issued>>

\* an initiation chain that puts the user back to idle when the initiation
\* is not accepted
initiate_payment_chain_reset(phone_number, amount, gateway, checkout_id) ==
    /\ gateway \in {"accept", "accept_no_id"} => checkout_id \notin v3_issued
    /\ amount # PyNone
    /\ v3_last' = [NoV3Op EXCEPT !.op = "initiate", !.user = phone_number,
                                 !.state_before = get_state(phone_number),
                                 !.gateway_called = TRUE,
                                 !.checkout_id = v3_checkout[phone_number],
                                 !.response = V3Response(gateway, checkout_id),
                                 !.reply = V3Reply(V3Response(gateway, checkout_id))]
    /\ IF V3Accepted(V3Response(gateway, checkout_id))
       THEN /\ v3_state' = [v3_state EXCEPT ![phone_number] = "payment_pending"]
            /\ v3_checkout' = [v3_checkout EXCEPT ![phone_number] =
                    Get(V3Response(gateway, checkout_id).items, K_CheckoutRequestID)]
       ELSE /\ v3_state' = [v3_state EXCEPT ![phone_number] = "idle"]
            /\ UNCHANGED v3_checkout
    /\ v3_issued' = IF gateway \in {"accept", "accept_no_id"}
                    THEN v3_issued \cup {checkout_id} ELSE v3_issued

\* router choice initiate_payment; the id the gateway issues is a fresh one
initiate_payment_chain(phone_number, amount, gateway, checkout_id) ==
    /\ gateway \in {"accept", "accept_no_id"} => checkout_id \notin v3_issued
    /\ IF amount = PyNone
       THEN /\ v3_last' = [NoV3Op EXCEPT !.op = "initiate", !.user = phone_number,
                                         !.state_before = get_state(phone_number),
                                         !.reply = [kind |-> "amount_missing",
                                                    desc |-> NoDesc]]
            /\ UNCHANGED <<v3_state, v3_checkout, v3_issued>>
       ELSE /\ v3_last' = [NoV3Op EXCEPT !.op = "initiate", !.user = phone_number,
                                         !.state_before = get_state(phone_number),
                                         !.gateway_called = TRUE,
                                         !.checkout_id = v3_checkout[phone_number],
                                         !.response = V3Response(gateway, checkout_id),
                                         !.reply = V3Reply(V3Response(gateway, checkout_id))]
            /\ IF V3Accepted(V3Response(gateway, checkout_id))
               THEN /\ v3_state' = [v3_state EXCEPT ![phone_number] = "payment_pending"]
                    /\ v3_checkout' = [v3_checkout EXCEPT ![phone_number] =
                            Get(V3Response(gateway, checkout_id).items, K_CheckoutRequestID)]
               ELSE UNCHANGED <<v3_state, v3_checkout>>
            /\ v3_issued' = IF gateway \in {"accept", "accept_no_id"}
                            THEN v3_issued \cup {checkout_id} ELSE v3_issued

\* router choice provide_status: reads the state, writes nothing
provide_status_chain(phone_number) ==
    /\ v3_last' = [NoV3Op EXCEPT !.op = "status", !.user = phone_number,
                                 !.state_before = get_state(phone_number)]
    /\ UNCHANGED <<v3_state, v3_checkout, v3_issued>>

\* the users MATCH (u:User) WHERE u.checkout_request_id = $checkout_id finds
MatchingUsers(checkout_id) == {u \in V3Users : v3_checkout[u] = checkout_id}

\* what the store does with the queries of one callback: all succeed, or the
\* MATCH, the MERGE of set_state or the REMOVE raises
V3Store == {"ok", "match_raises", "set_state_raises", "remove_raises"}

\* what the handler answers the gateway
CallbackReply(raised) ==
    [kind |-> IF raised THEN "accepted_despite_error" ELSE "accepted", desc |-> NoDesc]

\* a callback handler that applies an unmatched callback to a pending user
handle_callback_blind(checkout_id, result_code, store) ==
    \E phone_number \in V3Users :
        /\ MatchingUsers(checkout_id) # {} => phone_number \in MatchingUsers(checkout_id)
        /\ MatchingUsers(checkout_id) = {} => v3_state[phone_number] = "payment_pending"
        /\ v3_state' = [v3_state EXCEPT ![phone_number] =
                IF EqualsIntZero(result_code) THEN "payment_success"
                ELSE "payment_failed"]
        /\ v3_checkout' = [v3_checkout EXCEPT ![phone_number] = None]
        /\ v3_last' = [NoV3Op EXCEPT !.op = "callback", !.user = phone_number,
                                     !.state_before = get_state(phone_number),
                                     !.checkout_id = checkout_id,
                                     !.result_code = result_code,
                                     !.matched = MatchingUsers(checkout_id) # {},
                                     !.reply = CallbackReply(FALSE)]
        /\ UNCHANGED v3_issued

\* POST /mpesa/callback; result[0] is any one of the matching users. A query
\* that raises ends the handler in its except clause, which acknowledges the
\* callback: a raising MATCH or set_state leaves the node as it was, a raising
\* REMOVE leaves the new state written and the id stored
handle_callback(checkout_id, result_code, store) ==
    IF store = "match_raises"
    THEN /\ v3_last' = [NoV3Op EXCEPT !.op = "callback", !.checkout_id = checkout_id,
                                      !.result_code = result_code,
                                      !.reply = CallbackReply(TRUE)]
         /\ UNCHANGED <<v3_state, v3_checkout, v3_issued>>
    ELSE IF MatchingUsers(checkout_id) # {}
    THEN \E phone_number \in MatchingUsers(checkout_id) :
            /\ v3_state' = IF store = "set_state_raises" THEN v3_state
                           ELSE [v3_state EXCEPT ![phone_number] =
                                    IF EqualsIntZero(result_code) THEN "payment_success"
                                    ELSE "payment_failed"]
            /\ v3_checkout' = IF store = "ok"
                              THEN [v3_checkout EXCEPT ![phone_number] = None]
                              ELSE v3_checkout
            /\ v3_last' = [NoV3Op EXCEPT !.op = "callback", !.user = phone_number,
                                         !.state_before = get_state(phone_number),
                                         !.checkout_id = checkout_id,
                                         !.result_code = result_code,
                                         !.matched = TRUE,
                                         !.reply = CallbackReply(store # "ok")]
            /\ UNCHANGED v3_issued
    ELSE /\ v3_last' = [NoV3Op EXCEPT !.op = "callback", !.checkout_id = checkout_id,
                                      !.result_code = result_code,
                                      !.reply = CallbackReply(FALSE)]
         /\ UNCHANGED <<v3_state, v3_checkout, v3_issued>>

\* the gateway's side of an initiation: a request it accepted with an id is
\* one it will send the callback for
AwaitingAfterInitiate(phone_number, amount, gateway, checkout_id) ==
    IF amount # PyNone /\ V3Accepted(V3Response(gateway, checkout_id))
    THEN [v3_awaiting EXCEPT ![checkout_id] = phone_number]
    ELSE v3_awaiting

\* the gateway's side of a callback: the request is no longer outstanding
AwaitingAfterCallback(checkout_id) ==
    [id \in CheckoutIds |-> IF id = checkout_id THEN "none" ELSE v3_awaiting[id]]

V3Next ==
    \/ \E u \in V3Users : ask_for_amount_chain(u) /\ UNCHANGED <<v3_awaiting, toolVars, agentVars, v2Vars>>
    \/ \E u \in V3Users, a \in V3Amounts, g \in V3Gateway, id \in CheckoutIds :
          initiate_payment_chain(u, a, g, id) /\ UNCHANGED <<v3_awaiting, toolVars, agentVars, v2Vars>>
    \/ \E u \in V3Users : provide_status_chain(u) /\ UNCHANGED <<v3_awaiting, toolVars, agentVars, v2Vars>>
    \/ \E id \in CallbackIds, rc \in ResultCodes, store \in V3Store :
          handle_callback(id, rc, store) /\ UNCHANGED <<v3_awaiting, toolVars, agentVars, v2Vars>>

\* the same handlers, with the gateway's record of the requests it owes a
\* callback for kept alongside
V3GatewayNext ==
    \/ \E u \in V3Users : ask_for_amount_chain(u) /\ UNCHANGED <<v3_awaiting, toolVars, agentVars, v2Vars>>
    \/ \E u \in V3Users, a \in V3Amounts, g \in V3Gateway, id \in CheckoutIds :
          /\ initiate_payment_chain(u, a, g, id)
          /\ v3_awaiting' = AwaitingAfterInitiate(u, a, g, id)
          /\ UNCHANGED <<toolVars, agentVars, v2Vars>>
    \/ \E u \in V3Users : provide_status_chain(u) /\ UNCHANGED <<v3_awaiting, toolVars, agentVars, v2Vars>>
    \/ \E id \in CallbackIds, rc \in ResultCodes, store \in V3Store :
          /\ handle_callback(id, rc, store)
          /\ v3_awaiting' = AwaitingAfterCallback(id)
          /\ UNCHANGED <<toolVars, agentVars, v2Vars>>

-----------------------------------------------------------------------------
(* Tool-level runs: one operation applied to arguments drawn from the input  *)
(* sets, on a ChatAgent object with no sessions                              *)

\* a call of process_message: the message, which a caller may pass as None,
\* the number of payment steps the agent takes, whether the executor can be
\* built, and whether another thread calls clear_user_memory for the same user
\* while the call runs
ProcessCalls ==
    [tool : {"process_message"}, message : Messages \cup {None}, user_id : Users,
     payment_steps : 0..MaxIterations, executor_ok : BOOLEAN,
     agent : AgentBehaviours, reset : BOOLEAN]

\* process_message on its own, with no other call of the agent under way
process_message(message, payment_steps, executor_ok, agent) ==
    IF message = None
    THEN Raised("AttributeError")
    ELSE ProcessExcept(IF executor_ok
                       THEN ProcessTry(message, payment_steps, agent)
                       ELSE [kind |-> "exception", text |-> "none", blocked |-> FALSE])

NoCall == [tool |-> "none"]
NoResult == [done |-> FALSE]

ToolIdle ==
    /\ tool_call = NoCall
    /\ tool_result = NoResult

ToolInit ==
    /\ tool_call \in TillCalls \cup StatusCalls \cup ProcessCalls
    /\ tool_result = NoResult

RunTill ==
    /\ ~tool_result.done
    /\ tool_call.tool = "mpesa_till_payment"
    /\ tool_result' = [done |-> TRUE,
                       out |-> MpesaTillTool_run(tool_call.phone_number,
                                                 tool_call.amount, tool_call.client)]
    /\ UNCHANGED <<tool_call, agentVars, v3Vars, v2Vars>>

RunStatus ==
    /\ ~tool_result.done
    /\ tool_call.tool = "mpesa_transaction_status"
    /\ tool_result' = [done |-> TRUE,
                       out |-> MpesaTransactionStatusTool_run(tool_call.query,
                                                              tool_call.client)]
    /\ UNCHANGED <<tool_call, agentVars, v3Vars, v2Vars>>

\* process_message(message, user_id) called with a given behaviour of the
\* agent, statement by statement on one thread; the call is over when the
\* thread is idle again
ToolThread == "fastapi"

RunProcessMessage ==
    /\ ~tool_result.done
    /\ tool_call.tool = "process_message"
    /\ \/ ProcessMessageStart(ToolThread, tool_call.message, tool_call.user_id)
       \/ CheckConfirmation(ToolThread)
       \/ ExtractAndStorePhone(ToolThread)
       \/ LookupExecutor(ToolThread)
       \/ GetAgentExecutor(ToolThread, tool_call.executor_ok)
       \/ /\ payment_runs[ToolThread] < tool_call.payment_steps
          /\ AgentPaymentStep(ToolThread)
       \/ /\ payment_runs[ToolThread] = tool_call.payment_steps
          /\ InvokeReturns(ToolThread, tool_call.agent)
    /\ tool_result' = IF pc'[ToolThread] = "idle"
                      THEN [done |-> TRUE, out |-> reply'[ToolThread]]
                      ELSE tool_result
    /\ UNCHANGED <<tool_call, v3Vars, v2Vars>>

\* clear_user_memory(user_id) called once on the other thread while the call
\* of process_message runs
ResetThread == "telegram"

RunClearUserMemory ==
    /\ ~tool_result.done
    /\ tool_call.tool = "process_message"
    /\ tool_call.reset
    /\ \/ reply[ResetThread] = NoReply /\ clear_user_memory(ResetThread, tool_call.user_id)
       \/ ClearExecutor(ResetThread)
       \/ ClearSession(ResetThread)
    /\ UNCHANGED <<toolVars, v3Vars, v2Vars>>

ToolNext == RunTill \/ RunStatus \/ RunProcessMessage \/ RunClearUserMemory

-----------------------------------------------------------------------------
(* v4 entry points: the callers of ChatAgent.process_message                 *)

\* the parameters of process_message after self; none has a default
process_message_params == <<"message", "user_id">>

\* test_chat_agent, POST /chat, the WhatsApp webhook, the Telegram handler
EntryPoints == {"test_chat_agent", "chat_endpoint", "whatsapp_webhook", "telegram"}

\* the positional arguments an entry point passes to process_message: each of
\* the four passes the message text alone
EntryArgs(entry, message, user_id) == <<message>>

\* Python's binding of positional arguments to the parameters: a TypeError
\* is raised before the body runs when a required parameter gets no argument
CallProcessMessage(args, payment_steps, executor_ok, agent) ==
    IF Len(args) # Len(process_message_params)
    THEN [raised |-> TRUE, value |-> NoReply]
    ELSE [raised |-> FALSE,
          value |-> process_message(args[1], payment_steps, executor_ok, agent)]

\* what stands between a request and the call of process_message:
\* whatsapp_integration is None when WhatsAppIntegration(chat_agent) raised at
\* start-up (a Twilio variable is missing); signature_valid is the result of
\* validate_twilio_request
EntryEnvs == [whatsapp_integration : {"None", "available"}, signature_valid : BOOLEAN]

\* what the entry point gives its own caller. The webhook answers 503 without
\* an integration; process_whatsapp_message raises HTTPException(403) on an
\* invalid signature inside its own try, whose except clause returns the
\* error status; test_chat_agent constructs its ChatAgent inside its try. The
\* except clause of each entry point turns an exception of the call of
\* process_message into its error response.
EntryOutcome(entry, env, call) ==
    IF entry = "whatsapp_webhook" /\ env.whatsapp_integration = "None"
    THEN [ok |-> FALSE, outcome |-> "HTTP 503", reply |-> NoReply]
    ELSE IF entry = "whatsapp_webhook" /\ ~env.signature_valid
    THEN [ok |-> FALSE, outcome |-> "status error", reply |-> NoReply]
    ELSE IF entry = "test_chat_agent" /\ ChatAgent_init.raised
    THEN [ok |-> FALSE, outcome |-> "return False", reply |-> NoReply]
    ELSE IF ~call.raised
    THEN [ok |-> TRUE, outcome |-> "reply", reply |-> call.value]
    ELSE [ok |-> FALSE,
          outcome |-> CASE entry = "test_chat_agent" -> "return False"
                        [] entry = "chat_endpoint" -> "HTTP 500"
                        [] entry = "whatsapp_webhook" -> "status error"
                        [] entry = "telegram" -> "error reply",
          reply |-> NoReply]

EntryCalls ==
    [tool : {"entry"}, entry : EntryPoints, env : EntryEnvs,
     message : Messages, user_id : Users,
     payment_steps : {0, 1}, executor_ok : BOOLEAN, agent : AgentBehaviours]

\* main.py and test_chat_agent construct the agent before any message
ConstructCalls == {[tool |-> "ChatAgent"]}

EntryInit ==
    /\ tool_call \in EntryCalls \cup ConstructCalls
    /\ tool_result = NoResult

\* chat_agent = ChatAgent()
RunConstruct ==
    /\ ~tool_result.done
    /\ tool_call.tool = "ChatAgent"
    /\ tool_result' = [done |-> TRUE,
                       out |-> [ok |-> ~ChatAgent_init.raised,
                                outcome |-> ChatAgent_init.exception,
                                reply |-> NoReply]]
    /\ UNCHANGED <<tool_call, agentVars, v3Vars, v2Vars>>

\* one inbound message delivered to one entry point that holds an agent
RunEntry ==
    /\ ~tool_result.done
    /\ tool_call.tool = "entry"
    /\ tool_result' =
          [done |-> TRUE,
           out |-> EntryOutcome(tool_call.entry, tool_call.env,
                      CallProcessMessage(
                          EntryArgs(tool_call.entry, tool_call.message, tool_call.user_id),
                          tool_call.payment_steps, tool_call.executor_ok,
                          tool_call.agent))]
    /\ UNCHANGED <<tool_call, agentVars, v3Vars, v2Vars>>

EntryNext == RunEntry \/ RunConstruct

-----------------------------------------------------------------------------
(* v2 swarm_config.py : the workflow graph and its payment nodes             *)

\* a message of ChatState.messages
Msg(type, content) == [type |-> type, content |-> content]

U_hello == <<"h","e","l","l","o">>
U_pay_till == <<"p","a","y"," ","1","0","0"," ","t","o"," ","t","i","l","l"," ","1","7","4","3","7","9">>
U_pay_abc == <<"p","a","y"," ","a","b","c"," ","t","o"," ","t","i","l","l"," ","1","7","4","3","7","9">>

U_pay_tenth == <<"p","a","y"," ","0",".","1"," ","t","o"," ","t","i","l","l"," ","1","7","4","3","7","9">>
U_pay_cents == <<"p","a","y"," ","1","0","0",".","5","0"," ","t","o"," ","t","i","l","l"," ","1","7","4","3","7","9">>
U_pay_big == <<"p","a","y"," ","9","0","0","7","1","9","9","2","5","4","7","4","0","9","9","3"," ","t","o"," ","t","i","l","l"," ","1","7","4","3","7","9">>
U_pay_tiny == <<"p","a","y"," ","0",".","0","0","0","0","0","0","1"," ","t","o"," ","t","i","l","l"," ","1","7","4","3","7","9">>
U_pay_upper == <<"P","A","Y"," ","5","0"," ","T","O"," ","T","I","L","L"," ","1","7","4","3","7","9">>
U_pay_short == <<"p","a","y"," ","2","5","0"," ","t","o"," ","t","i","l","l">>
U_pay_other == <<"p","a","y"," ","7","5"," ","t","o"," ","t","i","l","l"," ","6","0","0","0","0","0">>

\* the single HumanMessage an invocation starts with
V2UserMessages ==
    {U_hello, U_pay_till, U_pay_abc, U_pay_tenth, U_pay_cents, U_pay_big, U_pay_tiny,
     U_pay_upper, U_pay_short, U_pay_other}

L_ok == <<"o","k">>
L_pay_till == <<"P","a","y"," ","5","0","0"," ","t","o"," ","t","i","l","l"," ","9","9","9","9","9","9">>
L_send_it == <<"s","e","n","d"," ","i","t"," ","t","o"," ","t","i","l","l"," ","1","7","4","3","7","9">>
L_pay_zero == <<"p","a","y"," ","0"," ","t","o"," ","t","i","l","l"," ","1","7","4","3","7","9">>
L_b2b == <<"p","a","y"," ","2","0","0"," ","f","r","o","m"," ","1","2","3","4","5","6"," ","t","o"," ","m","e","r","c","h","a","n","t"," ","0","0","0","0","0","0">>
L_qr == <<"g","e","n","e","r","a","t","e"," ","q","r"," ","f","o","r"," ","1","0","0"," ","t","o"," ","t","i","l","l"," ","3","7","3","1","3","2">>
L_qr_short == <<"g","e","n","e","r","a","t","e"," ","q","r"," ","f","o","r"," ","1","0","0"," ","t","o"," ","t","i","l","l">>

\* what llm.invoke answers in run_chat
L_pay_sup == <<"p","a","y"," ","²"," ","t","o"," ","t","i","l","l"," ","1","7","4","3","7","9">>
V2LLMTexts ==
    {L_ok, L_pay_till, L_send_it, L_pay_zero, L_b2b, L_qr, L_qr_short, L_pay_sup}

\* s.replace('.', '', 1)
RemoveFirstDot(s) ==
    LET dots == {i \in 1..Len(s) : s[i] = "."}
    IN  IF dots = {} THEN s
        ELSE SubSeq(s, 1, Min(dots) - 1) \o SubSeq(s, Min(dots) + 1, Len(s))

\* parts[1].replace('.', '', 1).isdigit()
IsAmountToken(token) == IsDigit(RemoveFirstDot(token))

\* float(token) raises ValueError on a token that passes isdigit with a
\* character that is no decimal digit, such as a superscript
FloatRaises(token) ==
    \E i \in 1..Len(token) : token[i] \in IsDigitChars \ Digits

\* ---- Python floats: IEEE 754 doubles ----
\* A natural number of any size is the sequence of its decimal digits, most
\* significant first, without leading zeros (<<0>> is zero). The arithmetic is
\* written as functions, which take values.
Num == Seq(0..9)

\* the digits without leading zeros
Strip[d \in Num] ==
    LET nz == {i \in 1..Len(d) : d[i] # 0}
    IN  IF nz = {} THEN <<0>> ELSE SubSeq(d, Min(nz), Len(d))

\* a < b
Less[a \in Num, b \in Num] ==
    \/ Len(a) < Len(b)
    \/ /\ Len(a) = Len(b)
       /\ LET diff == {i \in 1..Len(a) : a[i] # b[i]}
          IN  diff # {} /\ a[Min(diff)] < b[Min(diff)]

\* 2 * d + bit
DoublePlus[d \in Num, bit \in 0..1] ==
    Strip[[i \in 1..(Len(d) + 1) |->
              ( 2 * (IF i = 1 THEN 0 ELSE d[i - 1])
                + (IF i > Len(d) THEN bit ELSE IF d[i] >= 5 THEN 1 ELSE 0) ) % 10]]

Double[d \in Num] == DoublePlus[d, 0]

\* 5 * d
Times5[d \in Num] ==
    Strip[[i \in 1..(Len(d) + 1) |->
              ( (IF i > Len(d) THEN 0 ELSE d[i])
                + 10 * ((IF i = 1 THEN 0 ELSE d[i - 1]) % 2) ) \div 2]]

\* a - b, for a >= b
Minus[a \in Num, b \in Num] ==
    LET pad == Len(a) - Len(b)
        pb == [i \in 1..Len(a) |-> IF i > pad THEN b[i - pad] ELSE 0]
        borrow(i) == LET diff == {j \in (i + 1)..Len(a) : a[j] # pb[j]}
                     IN  IF diff # {} /\ a[Min(diff)] < pb[Min(diff)] THEN 1 ELSE 0
    IN  Strip[[i \in 1..Len(a) |-> (a[i] + 10 - pb[i] - borrow(i)) % 10]]

\* d + 1; the result may be one digit longer
Successor[d \in Num] ==
    LET low == {i \in 1..Len(d) : d[i] # 9}
    IN  IF low = {} THEN <<1>> \o [i \in 1..Len(d) |-> 0]
        ELSE [i \in 1..Len(d) |->
                 IF i < Max(low) THEN d[i] ELSE IF i = Max(low) THEN d[i] + 1 ELSE 0]

\* 10^k
TenTo[k \in Nat] == <<1>> \o [i \in 1..k |-> 0]

\* d * 2^times
Doubled[d \in Num, times \in Nat] ==
    IF times = 0 THEN d
    ELSE IF times = 1 THEN Double[d]
    ELSE Doubled[Doubled[d, times \div 2], times - (times \div 2)]

\* d * 5^times
FiveTimes[d \in Num, times \in Nat] ==
    IF times = 0 THEN d
    ELSE IF times = 1 THEN Times5[d]
    ELSE FiveTimes[FiveTimes[d, times \div 2], times - (times \div 2)]

\* the exponent range and the precision of a double
MinExponent == 0 - 1074
MaxExponent == 1023
Precision == 53

\* a quotient a / b with a binary exponent: (a / b) * 2^e
Scaled == [a : Num, b : Num, e : Int]

\* s with a / b in [1, 2), for a / b >= 1
NormaliseUp[s \in Scaled] ==
    IF Less[s.a, Double[s.b]] THEN s
    ELSE NormaliseUp[[a |-> s.a, b |-> Double[s.b], e |-> s.e + 1]]

\* a power of two that is at most 10^x: 2^LogFloor(x) <= 10^x, and less than
\* 16 times smaller
LogFloor(x) ==
    IF x >= 0 THEN (x * 3321) \div 1000 ELSE 0 - ((((0 - x) * 3322) + 999) \div 1000)

\* a / b as (a' / b') * 2^e with b' <= a' < 2 * b': a / b is at least
\* 10^(Len(a) - Len(b) - 1), which gives a power of two to start from
Normalise[a \in Num, b \in Num] ==
    LET e == LogFloor(Len(a) - Len(b) - 1)
    IN  IF e >= 0 THEN NormaliseUp[[a |-> a, b |-> Doubled[b, e], e |-> e]]
        ELSE NormaliseUp[[a |-> Doubled[a, 0 - e], b |-> b, e |-> e]]

\* a division in progress: the number m the binary digits so far write, and
\* twice the remainder
Division == [m : Num, rest : Num]

\* n more binary digits of the quotient by b, for rest < 2 * b
Quotient[q \in Division, b \in Num, n \in Nat] ==
    IF n = 0 THEN q
    ELSE IF n = 1
    THEN (IF Less[q.rest, b] THEN [m |-> DoublePlus[q.m, 0], rest |-> Double[q.rest]]
          ELSE [m |-> DoublePlus[q.m, 1], rest |-> Double[Minus[q.rest, b]]])
    ELSE Quotient[Quotient[q, b, n \div 2], b, n - (n \div 2)]

\* a double is zero, infinite or m * 2^p with m below 2^53; m is at least 2^52
\* unless p is the least exponent
Float == [class : {"zero", "inf", "finite"}, m : Num, p : Int]
FloatZero == [class |-> "zero", m |-> <<0>>, p |-> 0]
FloatInf == [class |-> "inf", m |-> <<0>>, p |-> 0]

\* 2^52, the least 53-bit number
LeastNormal == Doubled[<<1>>, Precision - 1]

\* the double m * 2^p, for m at most 2^53 (rounding up may carry to 2^53)
Canonical[m \in Num, p \in Int] ==
    LET carried == m = Double[LeastNormal]
        q == IF carried THEN p + 1 ELSE p
    IN  IF m = <<0>> THEN FloatZero
        ELSE IF q + Precision - 1 > MaxExponent THEN FloatInf
        ELSE [class |-> "finite", m |-> IF carried THEN LeastNormal ELSE Strip[m], p |-> q]

\* the double of a finished division by b: up when more than half of b is
\* left, and on a tie to the even one
Rounded[q \in Division, b \in Num, p \in Int] ==
    LET up == \/ Less[b, q.rest]
              \/ /\ q.rest = b
                 /\ q.m[Len(q.m)] % 2 = 1
    IN  Canonical[IF up THEN Successor[q.m] ELSE q.m, p]

\* the double nearest to (a / b) * 2^e, for a / b in [1, 2): 53 binary digits,
\* fewer when the exponent is below the least one
Nearest[s \in Scaled] ==
    LET nbits == IF s.e - Precision + 1 >= MinExponent THEN Precision
                 ELSE s.e - MinExponent + 1
    IN  IF nbits < 0 THEN FloatZero
        ELSE Rounded[Quotient[[m |-> <<0>>, rest |-> s.a], s.b, nbits], s.b,
                     IF nbits = Precision THEN s.e - Precision + 1 ELSE MinExponent]

\* the double nearest to n / 10^k, ties to the even one
NearestDouble[n \in Num, k \in Nat] ==
    IF n = <<0>> \/ Len(n) - k < 0 - 324 THEN FloatZero
    ELSE IF Len(n) - k > 309 THEN FloatInf
    ELSE Nearest[Normalise[n, TenTo[k]]]

\* a decimal: digits / 10^scale
Decimal == [digits : Num, scale : Nat]

\* the exact value of a finite double
ExactDecimal[x \in Float] ==
    IF x.p >= 0
    THEN [digits |-> Doubled[x.m, x.p], scale |-> 0]
    ELSE [digits |-> FiveTimes[x.m, 0 - x.p], scale |-> 0 - x.p]

\* the double nearest to digits * 10^exponent
DoubleOf[digits \in Num, exponent \in Int] ==
    IF exponent >= 0
    THEN NearestDouble[Strip[digits \o [i \in 1..exponent |-> 0]], 0]
    ELSE NearestDouble[Strip[digits], 0 - exponent]

\* the digits without trailing zeros
StripTrailing[d \in Num] ==
    LET nz == {i \in 1..Len(d) : d[i] # 0}
    IN  IF nz = {} THEN <<0>> ELSE SubSeq(d, 1, Max(nz))

\* a decimal as Python writes it: 0.digits * 10^point; no digits when no
\* decimal of the length asked for reads back as the double
Written == [digits : Num, point : Int]
NotWritten == [digits |-> <<>>, point |-> 0]

\* of the two decimals lo and lo + 1 (n digits, 0.lo * 10^point) the one that
\* reads back as the double: the nearer one if both do
Candidate[lo \in Num, point \in Int, lo_ok \in BOOLEAN, hi_ok \in BOOLEAN,
          nearer_hi \in BOOLEAN] ==
    IF lo_ok /\ ~(hi_ok /\ nearer_hi) THEN [digits |-> StripTrailing[lo], point |-> point]
    ELSE IF hi_ok
    THEN [digits |-> StripTrailing[Successor[lo]],
          point |-> point + Len(Successor[lo]) - Len(lo)]
    ELSE NotWritten

\* the decimal of n digits that reads back as the double x, whose exact value
\* is 0.digits * 10^point
OfLength[x \in Float, digits \in Num, point \in Int, n \in Nat] ==
    LET lo == SubSeq(digits, 1, n)
        rest == SubSeq(digits, n + 1, Len(digits))
        above == \/ rest[1] > 5
                 \/ /\ rest[1] = 5
                    /\ \E i \in 2..Len(rest) : rest[i] # 0
        tie == rest[1] = 5 /\ \A i \in 2..Len(rest) : rest[i] = 0
    IN  IF \A i \in 1..Len(rest) : rest[i] = 0
        THEN [digits |-> StripTrailing[lo], point |-> point]
        ELSE Candidate[lo, point, DoubleOf[lo, point - n] = x,
                       DoubleOf[Successor[lo], point - n] = x,
                       above \/ (tie /\ lo[n] % 2 = 1)]

\* the shortest digits that read back as the double x, from n digits on
ShortestFrom[x \in Float, digits \in Num, point \in Int, n \in Nat] ==
    IF n >= Len(digits) THEN [digits |-> StripTrailing[digits], point |-> point]
    ELSE IF OfLength[x, digits, point, n] # NotWritten THEN OfLength[x, digits, point, n]
    ELSE ShortestFrom[x, digits, point, n + 1]

\* the shortest digits that read back as the double x with the exact value v
Shortest[x \in Float, v \in Decimal] ==
    ShortestFrom[x, v.digits, Len(v.digits) - v.scale, 1]

\* the text of a sequence of decimal digits
DigitText[d \in Num] ==
    IF d = <<>> THEN "" ELSE HexDigits[Head(d) + 1] \o DigitText[Tail(d)]

\* the text of a natural number below 1000
NatText(n) ==
    DigitText[Strip[<<n \div 100, (n \div 10) % 10, n % 10>>]]

\* Python's text of 0.digits * 10^point: in exponent form when the value is
\* below 1e-4 or at least 1e16
Text[s \in Written] ==
    LET d == s.digits
        point == s.point
        zeros(k) == [i \in 1..k |-> 0]
    IN  IF point <= 0 - 4 \/ point > 16
        THEN DigitText[<<d[1]>>]
             \o (IF Len(d) > 1 THEN "." \o DigitText[Tail(d)] ELSE "")
             \o "e" \o (IF point - 1 < 0 THEN "-" ELSE "+")
             \o (IF point - 1 < 10 /\ 1 - point < 10 THEN "0" ELSE "")
             \o NatText(IF point - 1 < 0 THEN 1 - point ELSE point - 1)
        ELSE IF point <= 0
        THEN "0." \o DigitText[zeros(0 - point) \o d]
        ELSE IF point >= Len(d)
        THEN DigitText[d \o zeros(point - Len(d))] \o ".0"
        ELSE DigitText[SubSeq(d, 1, point)] \o "." \o DigitText[SubSeq(d, point + 1, Len(d))]

\* repr(x), which is also str(x)
FloatRepr[x \in Float] ==
    IF x.class = "zero" THEN "0.0"
    ELSE IF x.class = "inf" THEN "inf"
    ELSE Text[Shortest[x, ExactDecimal[x]]]

\* a Python float, written as Python writes it
PyFloat(x) == <<"float", FloatRepr[x]>>

\* the number a decimal digit character stands for
DigitNumber(c) == CHOOSE n \in 0..9 : HexDigits[n + 1] = DigitValue(c)

\* the number a token of decimal digits with at most one dot writes
TokenDecimal[token \in Seq(STRING)] ==
    LET dots == {i \in 1..Len(token) : token[i] = "."}
        whole == IF dots = {} THEN token ELSE SubSeq(token, 1, Min(dots) - 1)
        frac == IF dots = {} THEN <<>> ELSE SubSeq(token, Min(dots) + 1, Len(token))
    IN  [digits |-> Strip[[i \in 1..(Len(whole) + Len(frac)) |->
                              DigitNumber(IF i <= Len(whole) THEN whole[i]
                                          ELSE frac[i - Len(whole)])]],
         scale |-> Len(frac)]

\* the double nearest to a decimal
FromDecimal[v \in Decimal] == NearestDouble[v.digits, v.scale]

\* float(token) for a token of decimal digits with at most one dot: the double
\* nearest to the number the token writes
ParseFloat(token) == PyFloat(FromDecimal[TokenDecimal[token]])

\* "... else 100.0  # Default if invalid" and "... else 200.0"
DefaultTillAmount == <<"float", "100.0">>
DefaultB2BAmount == <<"float", "200.0">>

\* float(token) if the token is a number else the default
AmountOrDefault(token, default) ==
    IF IsAmountToken(token) THEN ParseFloat(token) ELSE default

\* state.messages[-1].content.lower().split()
LastParts(messages) == Split(Lower(messages[Len(messages)].content))

\* what the Daraja endpoints do with a request
V2Gateway == {"accepted", "rejected", "RequestException"}

\* the result of a payment node: the new message list, the requests it sent
\* to the gateway and the exception that left it, "none" when it returned
NodeResult(messages, text, requests) ==
    [messages |-> Append(messages, Msg("system", text)), requests |-> requests,
     exc |-> "none"]

\* a request sent to the gateway; token is the amount token of the message
\* it was made from
Request(kind, token, amount, short_code) ==
    [kind |-> kind, token |-> token, amount |-> amount, short_code |-> short_code]

T_error == <<"E","r","r","o","r">>
T_invalid == <<"I","n","v","a","l","i","d"," ","f","o","r","m","a","t">>
T_done == <<"P","a","y","m","e","n","t">>
T_failed == <<"f","a","i","l","e","d">>

\* the till node; float() of a token isdigit accepts and float rejects raises
run_till_with_token(messages, auth_ok, gateway) ==
    IF ~auth_ok
    THEN NodeResult(messages, T_error, <<>>)
    ELSE LET parts == LastParts(messages)
         IN  IF Len(parts) < 5 \/ parts[3] # <<"t","o">> \/ parts[4] # <<"t","i","l","l">>
             THEN NodeResult(messages, T_invalid, <<>>)
             ELSE IF IsAmountToken(parts[2]) /\ FloatRaises(parts[2])
             THEN [messages |-> messages, requests |-> <<>>, exc |-> "ValueError"]
             ELSE NodeResult(messages,
                             IF gateway = "accepted" THEN T_done ELSE T_failed,
                             << Request("till", parts[2],
                                        AmountOrDefault(parts[2], DefaultTillAmount),
                                        parts[5]) >>)

\* the b2b node
run_business_buy_goods(messages, auth_ok, gateway) ==
    IF ~auth_ok
    THEN NodeResult(messages, T_error, <<>>)
    ELSE LET parts == LastParts(messages)
         IN  IF Len(parts) < 7 \/ parts[3] # <<"f","r","o","m">> \/ parts[5] # <<"t","o">>
                \/ parts[6] # <<"m","e","r","c","h","a","n","t">>
             THEN NodeResult(messages, T_invalid, <<>>)
             ELSE IF IsAmountToken(parts[2]) /\ FloatRaises(parts[2])
             THEN [messages |-> messages, requests |-> <<>>, exc |-> "ValueError"]
             ELSE NodeResult(messages,
                             IF gateway = "accepted" THEN T_done ELSE T_failed,
                             << Request("b2b", parts[2],
                                        AmountOrDefault(parts[2], DefaultB2BAmount),
                                        parts[7]) >>)

\* the qr node; float() of a superscript raises ValueError, then parts[6] of
\* a message of six parts raises IndexError
run_dynamic_qr(messages, auth_ok, gateway) ==
    IF ~auth_ok
    THEN NodeResult(messages, T_error, <<>>)
    ELSE LET parts == LastParts(messages)
         IN  IF Len(parts) < 6 \/ parts[2] # <<"q","r">> \/ parts[3] # <<"f","o","r">>
                \/ parts[5] # <<"t","o">> \/ parts[6] # <<"t","i","l","l">>
             THEN NodeResult(messages, T_invalid, <<>>)
             ELSE IF IsAmountToken(parts[4]) /\ FloatRaises(parts[4])
             THEN [messages |-> messages, requests |-> <<>>, exc |-> "ValueError"]
             ELSE IF Len(parts) < 7
             THEN [messages |-> messages, requests |-> <<>>, exc |-> "IndexError"]
             ELSE NodeResult(messages,
                             IF gateway = "accepted" THEN T_done ELSE T_failed,
                             << Request("qr", parts[4],
                                        AmountOrDefault(parts[4], DefaultTillAmount),
                                        parts[7]) >>)

\* the state of the graph as a condition or a node receives it: the ChatState
\* the workflow is declared with (line 125), or a dict of its fields
GraphState(kind, messages) == [kind |-> kind, messages |-> messages]

\* state["messages"]: a dict has the key; ChatState is a pydantic model and
\* defines no __getitem__, so the subscript raises TypeError
SubscriptRaises(state) == state.kind = "ChatState"

\* state["messages"][-1].content.lower()
LastContent(state) == Lower(state.messages[Len(state.messages)].content)

\* check_till_intent, check_b2b_intent, check_qr_intent, where the subscript
\* does not raise
check_till_intent(state) ==
    /\ state.messages # <<>>
    /\ Contains(LastContent(state), <<"t","o"," ","t","i","l","l">>)
    /\ ~Contains(LastContent(state), <<"g","e","n","e","r","a","t","e"," ","q","r">>)
check_b2b_intent(state) ==
    /\ state.messages # <<>>
    /\ Contains(LastContent(state), <<"t","o"," ","m","e","r","c","h","a","n","t">>)
check_qr_intent(state) ==
    /\ state.messages # <<>>
    /\ Contains(LastContent(state), <<"g","e","n","e","r","a","t","e"," ","q","r">>)

\* the condition of the edges leaving chat: the node to run next, or the
\* TypeError of the first subscript
Route(state) ==
    IF SubscriptRaises(state) THEN "TypeError"
    ELSE IF check_till_intent(state) THEN "till"
    ELSE IF check_b2b_intent(state) THEN "b2b"
    ELSE IF check_qr_intent(state) THEN "qr"
    ELSE "chat"

\* the callers of swarm_app.invoke: run_terminal_test, the /whatsapp route
\* and the Telegram handle_message
V2Callers == {"run_terminal_test", "whatsapp", "handle_message"}

V2Idle ==
    /\ v2_messages = <<>>
    /\ v2_node = "none"
    /\ v2_requests = <<>>
    /\ v2_outcome = "none"
    /\ v2_caller = "none"

\* swarm_app.invoke(ChatState(messages=[HumanMessage(content=message)], ...))
V2Init ==
    /\ v2_messages \in {<<Msg("human", m)>> : m \in V2UserMessages}
    /\ v2_node = "chat"
    /\ v2_requests = <<>>
    /\ v2_outcome = "running"
    /\ v2_caller \in V2Callers

\* the chat node followed by the condition of its outgoing edges, which gets
\* the ChatState
V2Chat ==
    /\ v2_outcome = "running"
    /\ v2_node = "chat"
    /\ v2_caller \in V2Callers
    /\ \E llm \in [raises : BOOLEAN, text : V2LLMTexts] :
          IF llm.raises
          THEN /\ v2_outcome' = "Exception"
               /\ UNCHANGED <<v2_messages, v2_node>>
          ELSE /\ v2_messages' = Append(v2_messages, Msg("ai", llm.text))
               /\ LET route == Route(GraphState("ChatState", v2_messages'))
                  IN  IF route = "TypeError"
                      THEN v2_outcome' = "TypeError" /\ UNCHANGED v2_node
                      ELSE v2_node' = route /\ UNCHANGED v2_outcome
    /\ UNCHANGED <<v2_requests, v2_caller, toolVars, agentVars, v3Vars>>

\* what the caller's except clause does with the exception of invoke:
\* print(f"Error: ..."), jsonify({"error": ...}) with status 500, and
\* reply_text(f"Error: ...")
CallerExcept(caller) ==
    CASE caller = "run_terminal_test" -> "printed_error"
      [] caller = "whatsapp" -> "http_500"
      [] caller = "handle_message" -> "error_reply"

\* the caller after swarm_app.invoke raised
V2Caller ==
    /\ v2_caller \in V2Callers
    /\ v2_outcome \in {"Exception", "TypeError"}
    /\ v2_outcome' = CallerExcept(v2_caller)
    /\ UNCHANGED <<v2_messages, v2_node, v2_requests, v2_caller, toolVars, agentVars, v3Vars>>

V2Next == V2Chat \/ V2Caller

\* a payment node run on a ChatState whose last message is any text: the
\* user's or the LLM's
V2NodeInit ==
    /\ v2_messages \in {<<Msg("human", m)>> : m \in V2UserMessages \cup V2LLMTexts}
    /\ v2_node \in {"till", "b2b", "qr"}
    /\ v2_requests = <<>>
    /\ v2_outcome = "running"
    /\ v2_caller = "none"

\* a payment node and the edge back to chat
V2Payment(node, result) ==
    /\ v2_outcome = "running"
    /\ v2_node = node
    /\ v2_messages' = result.messages
    /\ v2_requests' = v2_requests \o result.requests
    /\ IF result.exc = "none"
       THEN v2_node' = "chat" /\ UNCHANGED v2_outcome
       ELSE v2_outcome' = result.exc /\ UNCHANGED v2_node
    /\ UNCHANGED <<v2_caller, toolVars, agentVars, v3Vars>>

V2Till ==
    \E auth_ok \in BOOLEAN, gateway \in V2Gateway :
        V2Payment("till", run_till_with_token(v2_messages, auth_ok, gateway))

V2B2B ==
    \E auth_ok \in BOOLEAN, gateway \in V2Gateway :
        V2Payment("b2b", run_business_buy_goods(v2_messages, auth_ok, gateway))

V2QR ==
    \E auth_ok \in BOOLEAN, gateway \in V2Gateway :
        V2Payment("qr", run_dynamic_qr(v2_messages, auth_ok, gateway))

V2NodesNext == V2Till \/ V2B2B \/ V2QR

-----------------------------------------------------------------------------
(* Specifications *)

\* the v4 ChatAgent shared by its handler threads
Init == ToolIdle /\ AgentInit /\ V3Init /\ V2Idle
Next == AgentNext
Spec == Init /\ [][Next]_vars

\* one tool-level operation on drawn arguments
InitTools == ToolInit /\ AgentInit /\ V3Init /\ V2Idle
SpecTools == InitTools /\ [][ToolNext]_vars

\* the v3 store under messages and callbacks
SpecV3 == Init /\ [][V3Next]_vars

\* the v3 server keeps answering: a user's status request is always served.
\* Whether the gateway delivers a callback, and whether a user sends another
\* payment message, is up to the environment; the program has no timer.
V3StatusPoll == \E u \in V3Users : provide_status_chain(u) /\ UNCHANGED <<v3_awaiting, toolVars, agentVars, v2Vars>>
SpecV3Live == Init /\ [][V3Next]_vars /\ WF_vars(V3StatusPoll)

\* the v3 store under messages and callbacks, with the gateway's outstanding
\* requests on record
SpecV3Gateway == Init /\ [][V3GatewayNext]_vars

\* the ChatAgent with its reset operation in use
ResetNext == AgentNext \/ ClearNext
SpecReset == Init /\ [][ResetNext]_vars

\* one call of swarm_app.invoke by one of its callers; the graph and then the
\* caller keep running while they can
InitV2 == ToolIdle /\ AgentInit /\ V3Init /\ V2Init
SpecV2Live == InitV2 /\ [][V2Next]_vars /\ WF_vars(V2Next)

\* one payment node of the v2 workflow run on a ChatState
InitV2Nodes == ToolIdle /\ AgentInit /\ V3Init /\ V2NodeInit
SpecV2Nodes == InitV2Nodes /\ [][V2NodesNext]_vars

\* the construction of the v4 agent, and one inbound message at one entry point
InitEntry == EntryInit /\ AgentInit /\ V3Init /\ V2Idle
SpecEntry == InitEntry /\ [][EntryNext]_vars

-----------------------------------------------------------------------------
(* Claims *)

\* C1: the payment tool reaches the gateway only while a message that matched
\* a confirmation phrase is being processed for a user whose session holds a
\* payment awaiting confirmation.
C1_GatewayOnlyOnConfirmation ==
    \A t \in Threads :
        payment_runs[t] > 0 =>
            /\ is_payment_confirmation(cur[t].message)
            /\ user_sessions[cur[t].user_id].pending_payment # None

\* C2: at every call of client.initiate_payment the user's session has
\* payment_confirmed = True, and after the call it is False again.
C2_ConfirmedAtCallThenCleared ==
    [][\A t \in Threads :
          payment_runs'[t] > payment_runs[t] =>
              /\ user_sessions[cur[t].user_id].payment_confirmed
              /\ ~user_sessions'[cur[t].user_id].payment_confirmed]_vars

\* C3: a payment request for a user whose state is payment_pending is rejected
\* without calling the gateway.
C3_NoGatewayCallWhilePending ==
    (v3_last.op = "initiate" /\ v3_last.gateway_called)
        => v3_last.state_before # "payment_pending"

\* C4: two confirming messages of one user processed at the same time on the
\* two threads lead to at most one gateway initiation between them.
C4_ConcurrentConfirmationsOneCall ==
    \A t1, t2 \in Threads :
        ( /\ t1 # t2
          /\ pc[t1] = "invoke" /\ pc[t2] = "invoke"
          /\ cur[t1].user_id = cur[t2].user_id
          /\ is_payment_confirmation(cur[t1].message)
          /\ is_payment_confirmation(cur[t2].message) )
        => payment_runs[t1] + payment_runs[t2] <= 1

\* C5: one run of MpesaTillTool._run calls client.initiate_payment at most
\* once, whether the client returns or raises.
C5_OneGatewayCallPerRun ==
    (tool_result.done /\ tool_call.tool = "mpesa_till_payment")
        => tool_result.out.attempts <= 1

\* C6: while a user's only messages are "pay 100" and then "174379", no run of
\* the payment tool reaches the gateway for that user.
C6_NoGatewayCallWithoutConfirmation ==
    \A t \in Threads :
        (pc[t] = "invoke" /\ scenario[cur[t].user_id] \in {"pay100", "pay100_till"})
            => payment_runs[t] = 0

\* C7: a callback whose CheckoutRequestID no user has stored changes no
\* user's state and no stored checkout id, whatever its result code.
C7_UnmatchedCallbackNoOp ==
    [][\A id \in CallbackIds, rc \in ResultCodes, store \in V3Store :
          (handle_callback(id, rc, store) /\ MatchingUsers(id) = {})
              => UNCHANGED <<v3_state, v3_checkout>>]_vars

\* C7 witness: an unmatched callback has been handled while a user was waiting
\* for the callback of another checkout id.
C7_Witness ==
    /\ v3_last.op = "callback"
    /\ ~v3_last.matched
    /\ \E u \in V3Users : v3_state[u] = "payment_pending" /\ v3_checkout[u] # None

\* C8: for every valid subscriber number n, the phone number the payment tool
\* sends to the gateway for "0"+n and for bare n is "254"+n.
C8_TillNormalisesBareAndTrunk ==
    \A n \in Subscribers :
        ( /\ tool_result.done
          /\ tool_call.tool = "mpesa_till_payment"
          /\ tool_call.phone_number \in {n, <<"0">> \o n} )
        => tool_result.out.sent_phone = <<"2","5","4">> \o n

\* "254" followed by exactly 9 digits
IsCanonicalPhone(p) ==
    /\ Len(p) = 12
    /\ StartsWith(p, <<"2","5","4">>)
    /\ \A i \in 1..Len(p) : p[i] \in AsciiDigits

\* C9: the payment tool passes to client.initiate_payment only phone numbers
\* of the form 254 followed by 9 digits.
C9_OnlyCanonicalPhonesSent ==
    ( /\ tool_result.done
      /\ tool_call.tool = "mpesa_till_payment"
      /\ tool_result.out.attempts > 0 )
    => IsCanonicalPhone(tool_result.out.sent_phone)

\* C10: MpesaTillTool._run, MpesaTransactionStatusTool._run and
\* process_message return a value for every input and every behaviour of the
\* client and the agent; no exception reaches the caller.
C10_OperationsAlwaysReturn ==
    tool_result.done =>
        CASE tool_call.tool = "mpesa_till_payment" -> ~tool_result.out.raised
          [] tool_call.tool = "mpesa_transaction_status" -> tool_result.out.exc = "none"
          [] tool_call.tool = "process_message" -> tool_result.out.kind # "exception"

\* C11: the agent the entry points share is constructed, and every entry
\* point obtains the agent's reply for a well-formed inbound message; none
\* ends in the error response of its except clause.
C11_EntryPointsObtainReply ==
    (tool_result.done /\ tool_call.tool \in {"entry", "ChatAgent"})
        => tool_result.out.ok

\* C12: a user whose state is payment_pending eventually has another state,
\* also when no callback is delivered.
C12_PendingEventuallyLeaves ==
    \A u \in V3Users :
        (v3_state[u] = "payment_pending") ~> (v3_state[u] # "payment_pending")

\* a dict with a field whose lower-cased name ends in "code" and whose value
\* is the string "0" or equals the number 0
HasZeroCodeField(response) ==
    /\ response.is_dict
    /\ \E i \in 1..Len(response.items) :
          /\ LET name == Lower(response.items[i][1])
             IN  Len(name) >= 4 /\ SubSeq(name, Len(name) - 3, Len(name)) = <<"c","o","d","e">>
          /\ (response.items[i][2] = PyStr("0") \/ EqualsIntZero(response.items[i][2]))

\* C13: a run of the payment tool reports success exactly when the client
\* returned a response that is a dict with a zero-valued field ending in "code".
C13_SuccessIffZeroCodeField ==
    (tool_result.done /\ tool_call.tool = "mpesa_till_payment")
        => (tool_result.out.success
              <=> ( /\ tool_call.client.raises < MaxAttempts
                    /\ HasZeroCodeField(tool_call.client.response) ))

\* C13 witness: a run reported success for a response whose ResponseCode is
\* "1", another field ending in "code" being zero.
C13_Witness ==
    /\ tool_result.done
    /\ tool_call.tool = "mpesa_till_payment"
    /\ tool_result.out.success
    /\ tool_call.client.response.is_dict
    /\ Get(tool_call.client.response.items, K_ResponseCode) = PyStr("1")

\* C14: a run of the payment tool that reports success carries a checkout
\* request id that is not None.
C14_SuccessCarriesCheckoutId ==
    (tool_result.done /\ tool_call.tool = "mpesa_till_payment" /\ tool_result.out.success)
        => tool_result.out.checkout_request_id # PyNone

\* C15: when the response to an initiation is a failure that carries a
\* description, the failure message returned contains the first of
\* ResponseDescription, errorMessage, message, detail that is present.
C15_FailureMessageCarriesDescription ==
    ( /\ v3_last.op = "initiate"
      /\ v3_last.reply.kind = "failed"
      /\ ErrorDescription(v3_last.response) # NoDesc )
    => v3_last.reply.desc = ErrorDescription(v3_last.response)

\* C16: a status check whose query names neither a transaction_id nor an
\* originator_conversation_id returns its no-identifier text, calls the
\* gateway zero times and raises nothing.
C16_StatusWithoutIdNoGatewayCall ==
    ( /\ tool_result.done
      /\ tool_call.tool = "mpesa_transaction_status"
      /\ tool_call.query.json = "object"
      /\ ~Truthy(tool_call.query.transaction_id)
      /\ ~Truthy(tool_call.query.originator_conversation_id) )
    => /\ tool_result.out.exc = "none"
       /\ tool_result.out.gateway_calls = 0
       /\ tool_result.out.text =
             "Error: Either transaction_id or originator_conversation_id must be provided."

\* C16 witness: such a check has returned although the client would have
\* raised had it been called.
C16_Witness ==
    /\ tool_result.done
    /\ tool_call.tool = "mpesa_transaction_status"
    /\ tool_call.query.json = "object"
    /\ tool_call.query.transaction_id = PyStr("")
    /\ tool_call.query.originator_conversation_id = PyNone
    /\ tool_call.client.raises
    /\ tool_result.out.gateway_calls = 0

\* C17: the step of process_message that finds no session for the user
\* creates the session with payment_confirmed False, phone_number None and
\* pending_payment None; when clear_user_memory(u) returns, u has no session
\* and no cached executor, so that the next message for u starts from that
\* default session again.
C17_LazyDefaultAndReset ==
    [][\A t \in Threads, u \in Users :
          /\ ( /\ u \notin DOMAIN user_sessions
               /\ \E m \in Messages : ProcessMessageStart(t, m, u) )
                => user_sessions'[u] = DefaultSession
          /\ (ClearSession(t) /\ cur[t].user_id = u)
                => (u \notin DOMAIN user_sessions' /\ u \notin agent_executors')]_vars

\* C18: when _check_and_block_payments has blocked a payment step of a turn,
\* the text process_message returns is a diagnostic, not the agent's output.
C18_BlockReturnsDiagnostic ==
    \A t \in Threads : reply[t].blocked => reply[t].kind = "diagnostic"

\* C19: a callback that sets a user's state to payment_success or
\* payment_failed finds that user in payment_pending.
C19_ResolvedOnlyFromPending ==
    (v3_last.op = "callback" /\ v3_last.matched)
        => v3_last.state_before = "payment_pending"

\* C20: after an initiation the gateway has rejected, the user's state is idle.
C20_RejectionReturnsToIdle ==
    (v3_last.op = "initiate" /\ v3_last.reply.kind = "failed")
        => get_state(v3_last.user) = "idle"

\* C21: an initiation during which the client raises leaves every user's
\* stored state and stored checkout id as they were.
C21_TransportErrorKeepsState ==
    [][\A u \in V3Users, id \in CheckoutIds :
          initiate_payment_chain(u, PyInt("100"), "raise", id)
              => UNCHANGED <<v3_state, v3_checkout>>]_vars

\* C21 witness: the client raised during an initiation for a user who was
\* waiting for the callback of an earlier payment, and that user still is.
C21_Witness ==
    /\ v3_last.op = "initiate"
    /\ v3_last.gateway_called
    /\ v3_last.response = V3Response("raise", CheckoutId(1))
    /\ v3_last.state_before = "payment_pending"
    /\ v3_state[v3_last.user] = "payment_pending"
    /\ v3_checkout[v3_last.user] # None

\* C22: a run of the payment tool on a response whose ResponseCode is present
\* and not zero reports failure, whatever the other fields carry.
C22_NonZeroResponseCodeFails ==
    ( /\ tool_result.done
      /\ tool_call.tool = "mpesa_till_payment"
      /\ tool_call.client.raises < MaxAttempts
      /\ tool_call.client.response.is_dict
      /\ HasKey(tool_call.client.response.items, K_ResponseCode)
      /\ Get(tool_call.client.response.items, K_ResponseCode) # PyStr("0")
      /\ ~EqualsIntZero(Get(tool_call.client.response.items, K_ResponseCode)) )
    => ~tool_result.out.success

\* decimal digits with at most one dot, one digit at least not being zero
IsPositiveAmountToken(token) ==
    /\ IsAmountToken(token)
    /\ ~FloatRaises(token)
    /\ \E i \in 1..Len(token) : DigitValue(token[i]) \in AsciiDigits \ {"0"}

\* C23: every payment request the till node sends was made from a message
\* whose amount token is a valid positive number.
C23_InvalidAmountNoRequest ==
    \A i \in 1..Len(v2_requests) :
        v2_requests[i].kind = "till" => IsPositiveAmountToken(v2_requests[i].token)

\* the executions of payment nodes in the invocation: each appends one
\* SystemMessage
PaymentNodeRuns == Cardinality({i \in 1..Len(v2_messages) : v2_messages[i].type = "system"})

\* C30: the invocation ends by returning the message list, and at no time
\* have the payment nodes been executed more than once.
C30_TerminatesNormally ==
    <>(v2_outcome = "returned") /\ [](PaymentNodeRuns <= 1)

\* C25: in every reachable state of the v4 ChatAgent every session has
\* pending_payment None and payment_confirmed False, whatever messages,
\* confirmations included, were processed.
C25_NoPendingNoConfirmed ==
    \A u \in DOMAIN user_sessions :
        /\ user_sessions[u].pending_payment = None
        /\ user_sessions[u].payment_confirmed = FALSE

\* a confirming message has been processed for a user who has a session
C25_Witness ==
    \E t \in Threads :
        /\ pc[t] = "invoke"
        /\ cur[t].message = M_yes
        /\ MessageFacts[M_yes].confirms
        /\ cur[t].user_id \in DOMAIN user_sessions

\* C26: the two confirmation checks agree on every message: the message of a
\* turn is a payment confirmation exactly when a payment-tool call made in
\* that turn passes _check_and_block_payments unblocked.
C26_ConfirmationChecksAgree ==
    \A t \in Threads :
        (pc[t] = "invoke" /\ payment_runs[t] > 0)
            => (is_payment_confirmation(cur[t].message)
                    <=> ~Blocks(cur[t].message, payment_runs[t]))

\* C27: each session's phone_number is None or 254 followed by 9 digits,
\* whichever branch of _extract_and_store_phone_number stored it.
C27_StoredPhoneIsCanonical ==
    \A u \in DOMAIN user_sessions :
        \/ user_sessions[u].phone_number = None
        \/ IsCanonicalPhone(user_sessions[u].phone_number)

\* C28: a callback carrying the id of an accepted initiation whose callback
\* the gateway has not sent before is matched to the initiating user and takes
\* that user out of payment_pending, whatever requests were handled between
\* the initiation and the callback; the store's queries all succeed.
C28_AcceptedCallbackMatched ==
    [][ \A id \in CheckoutIds, rc \in ResultCodes :
          (handle_callback(id, rc, "ok") /\ v3_awaiting[id] # "none")
          => ( /\ v3_last'.matched
               /\ v3_last'.user = v3_awaiting[id]
               /\ v3_state'[v3_awaiting[id]] # "payment_pending" ) ]_vars

\* C29: a callback that repeats the one handled just before it (same
\* CheckoutRequestID, same ResultCode) changes no user's state and no stored
\* checkout id.
C29_RedeliveryChangesNothing ==
    [][ \A id \in CallbackIds, rc \in ResultCodes, store \in V3Store :
          ( /\ v3_last.op = "callback"
            /\ v3_last.checkout_id = id
            /\ v3_last.result_code = rc
            /\ handle_callback(id, rc, store) )
          => (v3_state' = v3_state /\ v3_checkout' = v3_checkout) ]_vars

====
